---- MODULE Spec2Model ----
(***************************************************************************)
(* Keyword taxonomy matching and scoring engine of the CU analyzer:        *)
(* core/scoring.py (matcher, counting, verb gate, field scores),           *)
(* core/pdf_builder.py (per-CU totals, pass counts), app.py (document      *)
(* category, the calls of the scorer), core/keywords.py (variant expansion *)
(* and the surface -> base lookup), ui/keywords_tab.py and                 *)
(* utils/file_persist.py (custom base terms).                              *)
(*                                                                         *)
(* A text is a sequence of one-character strings.  Offsets reported by     *)
(* the matcher are Python offsets (0-based start, exclusive end).          *)
(* Python dicts are functions whose DOMAIN is the set of keys present.     *)
(***************************************************************************)
EXTENDS Integers, Sequences, FiniteSets, TLC

VARIABLES
    pc,                     \* position of the run
    cu_blocks,              \* the document: the sequence of CU records
    cu,                     \* the CU record being scored: field -> text
    weights,                \* dict field -> weight
    thresholds,             \* dict field -> configured threshold
    verbs_on,               \* verbs_regex is not None
    verbs_required_fields,  \* the fields that use verb mode
    units,                  \* dict field -> <<gt_units, ir_units>> of the last scoring
    gt_scores,              \* dict field -> GreenTech score
    ir_scores,              \* dict field -> IR4 score
    summary_rows,           \* per-CU <<total_gt, total_ir>>, in document order
    gt_ge50,                \* number of CUs whose GreenTech total passes
    ir_ge50,                \* number of CUs whose IR4 total passes
    final_category,         \* the document label, "" until decided
    GREEN_BASE,             \* core/keywords.py: the GreenTech base-term list
    IR_BASE,                \* core/keywords.py: the IR4 base-term list
    VARIANTS_REGEX,         \* app.py:46: the alternation of the compiled matcher
    VARIANT_TO_BASE,        \* app.py:46: the surface -> base lookup
    GREEN_BASE_SET_S,       \* app.py:46: the GreenTech base terms
    IR_BASE_SET_S,          \* app.py:46: the IR4 base terms
    builds,                 \* the lookups of the builds made so far, in order
    count_mode,             \* app.py:28-30: st.session_state.count_mode
    call_error,             \* the exception the last call raised, "" if none
    state_prefix,           \* the keywords tab: "gt" or "ir"
    kw_file,                \* the tab's file (file_persist): what it holds and the data
    custom_dict,            \* st.session_state[state_key]: the tab's custom dictionary
    boot_flag,              \* st.session_state[boot_flag]
    added_labels,           \* the labels the tab lists under "Your added base keywords"
    tab_error,              \* the exception the last rendering raised, "" if none
    in_text,                \* the text argument of a counting function
    called,                 \* the counting functions applied to in_text so far
    out_matches,            \* find_and_count_variants: the matches list
    out_by_base,            \* find_and_count_variants: the Counter counts_by_base
    out_units,              \* _count_verb_mode_units_for_field: <<gt_units, ir_units>>
    out_counts,             \* count_keywords_with_optional_verbs: the Counter: base -> count
    out_variants,           \* expand_phrase_variants: the set of surfaces
    in_items,               \* the Work Activity / Performance Criteria items of a CU
    out_items               \* the items the verb gate iterated over

\* what a scoring run reads and writes
scoreVars == <<pc, cu_blocks, cu, weights, thresholds, verbs_on, verbs_required_fields, units,
               gt_scores, ir_scores, summary_rows, gt_ge50, ir_ge50, final_category>>

\* the vocabulary and what build_regex_and_maps returns
mapVars == <<GREEN_BASE, IR_BASE, VARIANTS_REGEX, VARIANT_TO_BASE, GREEN_BASE_SET_S,
             IR_BASE_SET_S, builds>>

\* the counting mode of the session and the outcome of a call of the entry point
callVars == <<count_mode, call_error>>

\* a keywords tab (ui/keywords_tab.py) and its file
tabVars == <<state_prefix, kw_file, custom_dict, boot_flag, added_labels, tab_error>>

\* a counting function applied to a text
countVars == <<in_text, called, out_matches, out_by_base, out_units, out_counts,
               out_variants, in_items, out_items>>

auxVars == <<callVars, tabVars, countVars>>

vars == <<scoreVars, mapVars, auxVars>>

\* Python's None where a text or a base term is expected (no text is <<"None">>:
\* the elements of a text are single characters)
NoValue == <<"None">>

(***************************************************************************)
(* Bounds of the model.                                                    *)
(***************************************************************************)
\* longest field text drawn in SpecField
MaxLen == 5
\* weights 0..MaxW are drawn in SpecScore, besides the default weights
MaxW == 5
\* largest configured threshold drawn in SpecScore
MaxTh == 10
\* largest unit count drawn in SpecScore
MaxUnits == 11
\* most CUs in a document of Spec
MaxCUs == 3
\* most builds of the matcher in a behaviour of SpecBuild
MaxBuilds == 2
\* most characters of the short texts SpecCount gives to the counting functions
MaxCountLen == 3
\* most entries of a custom dictionary in SpecTab
MaxCustom == 2
\* most characters of the short phrases SpecExpand expands
MaxPhraseLen == 3
\* longest field text drawn in SpecGate
MaxGateLen == 5
\* most items of a Work Activity list in SpecItems
MaxItems == 3

(***************************************************************************)
(* Characters.                                                             *)
(***************************************************************************)
\* the characters field texts are drawn from
Alphabet == {"g", "i", "v", " ", "-"}

\* \w of the re module: letters, digits, underscore
WordChars == {"g", "i", "v", "G", "I", "V", "x", "X", "_", "0",
              "a", "A", "c", "C", "d", "e", "l", "n", "s", "S", "y", "U+0130"}

\* U+0130, the capital I with a dot above, is the one character whose lower
\* case has two: "i" and the combining dot U+0307 (not a word character)
CapitalIDot == "U+0130"

CombiningDot == "U+0307"

\* \s of the re module, and what str.strip() removes
SpaceChars == {" ", "\n", "\t"}

\* str.lower() on one character
LowerCh(ch) ==
    CASE ch = "G" -> "g"
      [] ch = "I" -> "i"
      [] ch = "V" -> "v"
      [] ch = "A" -> "a"
      [] ch = "C" -> "c"
      [] ch = "S" -> "s"
      [] ch = "X" -> "x"
      [] OTHER -> ch

\* str.lower() from position j, one character at a time
RECURSIVE LowerFrom(_, _)
LowerFrom(s, j) ==
    IF j > Len(s) THEN <<>>
    ELSE (IF s[j] = CapitalIDot THEN <<"i", CombiningDot>> ELSE <<LowerCh(s[j])>>)
         \o LowerFrom(s, j + 1)

\* str.lower()
Lower(s) ==
    IF \A j \in 1..Len(s) : s[j] # CapitalIDot
    THEN [j \in 1..Len(s) |-> LowerCh(s[j])]
    ELSE LowerFrom(s, 1)

RECURSIVE LStrip(_)
LStrip(s) ==
    IF s # <<>> /\ Head(s) \in SpaceChars THEN LStrip(Tail(s)) ELSE s

RECURSIVE RStrip(_)
RStrip(s) ==
    IF s # <<>> /\ s[Len(s)] \in SpaceChars
    THEN RStrip(SubSeq(s, 1, Len(s) - 1))
    ELSE s

\* str.strip()
Strip(s) == RStrip(LStrip(s))

(***************************************************************************)
(* Vocabulary of the model.  The program's base-term lists hold some two   *)
(* hundred phrases; the model keeps one term of each kind: a GreenTech     *)
(* term, an IR4 term, a term of both taxonomies, and a two-token           *)
(* GreenTech term, and one seed entry (an abbreviation of the IR4 term).   *)
(* An ordered dict is a sequence of <<key, value>> pairs (insertion order).*)
(***************************************************************************)
\* GREEN_BASE and IR_BASE of a run with the model's vocabulary
DefaultGreenBase == << <<"g">>, <<"g", "i">>, <<"g", " ", "i">> >>

DefaultIrBase == << <<"i">>, <<"g", "i">> >>

\* the seed dicts: base -> list of variants, as written (not yet normalised)
VARIANTS_GREEN_SEED == << >>

VARIANTS_IR_SEED == << <<(<<"i">>), << <<" ", "A">> >> >> >>

\* the surfaces of the action-verb vocabulary (build_verb_regex); "i" is a word
\* that is an action verb and an IR4 term at once
VERB_SURFACES == << <<"v">>, <<"i">> >>

(***************************************************************************)
(* Ordered dicts.                                                          *)
(***************************************************************************)
DictKeys(d) == [j \in 1..Len(d) |-> d[j][1]]

DictHas(d, k) == \E j \in 1..Len(d) : d[j][1] = k

\* d.get(k): the value, or NoValue
DictGet(d, k) ==
    IF DictHas(d, k)
    THEN d[CHOOSE j \in 1..Len(d) : d[j][1] = k][2]
    ELSE NoValue

\* the dict left by the assignments d[k] = v made in the order of the sequence
\* of <<k, v>> pairs: a key stands where it was first assigned and holds the
\* value it was last assigned
DictOf(assigns) ==
    LET n == Len(assigns)
        firsts == {j \in 1..n : \A k \in 1..(j - 1) : assigns[k][1] # assigns[j][1]}
        Nth(m) == CHOOSE j \in firsts : Cardinality({k \in firsts : k <= j}) = m
        Last(key) ==
            assigns[CHOOSE j \in 1..n :
                       /\ assigns[j][1] = key
                       /\ \A k \in (j + 1)..n : assigns[k][1] # key][2]
    IN  [m \in 1..Cardinality(firsts) |->
            <<assigns[Nth(m)][1], Last(assigns[Nth(m)][1])>>]

\* {}: a dict or a Counter without keys
EmptyDict == [f \in {} |-> 0]

\* d.items() as a set: two dicts are equal iff they hold the same items
DictItems(d) == {d[j] : j \in 1..Len(d)}

\* d[k] = v
DictSet(d, k, v) == DictOf(Append(d, <<k, v>>))

\* d.update(e)
DictUpdate(d, e) == DictOf(d \o e)

RECURSIVE MaxLenOf(_)
MaxLenOf(keys) ==
    IF keys = <<>> THEN 0
    ELSE LET m == MaxLenOf(Tail(keys))
         IN  IF Len(Head(keys)) > m THEN Len(Head(keys)) ELSE m

\* sorted(keys, key=len, reverse=True): stable, equal lengths keep their order
RECURSIVE SortedFrom(_, _)
SortedFrom(keys, n) ==
    IF n < 0 THEN <<>>
    ELSE LET HasLen(k) == Len(k) = n
         IN  SelectSeq(keys, HasLen) \o SortedFrom(keys, n - 1)

\* a variant that sorts the shortest key first
SortedByLenAsc(keys) ==
    LET d == SortedFrom(keys, MaxLenOf(keys))
    IN  [j \in 1..Len(d) |-> d[Len(d) + 1 - j]]

SortedByLenDesc(keys) == SortedFrom(keys, MaxLenOf(keys))

(***************************************************************************)
(* core/keywords.py: variant expansion and build_variant_map               *)
(***************************************************************************)
\* the characters [\s\-] tokens are split at
TokenSep == SpaceChars \cup {"-"}

\* the non-empty pieces of s between runs of separators; cur is the piece read so far
RECURSIVE TokensFrom(_, _, _)
TokensFrom(s, i, cur) ==
    IF i > Len(s) THEN (IF cur = <<>> THEN <<>> ELSE <<cur>>)
    ELSE IF s[i] \in TokenSep
    THEN (IF cur = <<>> THEN <<>> ELSE <<cur>>) \o TokensFrom(s, i + 1, <<>>)
    ELSE TokensFrom(s, i + 1, Append(cur, s[i]))

\* _tokenize
tokenize(p) == TokensFrom(Lower(Strip(p)), 1, <<>>)

\* str.endswith
EndsWith(t, suffix) ==
    /\ Len(t) >= Len(suffix)
    /\ SubSeq(t, Len(t) - Len(suffix) + 1, Len(t)) = suffix

\* a variant that adds the plain suffixes to a token ending in y as well
MorphNaiveSuffixes(tok) ==
    LET t == Lower(tok)
    IN  {t, t \o <<"s">>, t \o <<"e", "s">>, t \o <<"e", "d">>, t \o <<"i", "n", "g">>}
        \cup (IF EndsWith(t, <<"a", "l">>) \/ EndsWith(t, <<"i", "c">>)
              THEN {t \o <<"l", "y">>} ELSE {})

\* _morph_last_token_forms
morph_last_token_forms(tok) ==
    LET t == Lower(tok)
        stem == SubSeq(t, 1, Len(t) - 1)
        inflected ==
            IF EndsWith(t, <<"y">>)
            THEN {t, stem \o <<"i", "e", "s">>, stem \o <<"i", "e", "d">>,
                  stem \o <<"y", "i", "n", "g">>, t \o <<"s">>}
            ELSE {t, t \o <<"s">>, t \o <<"e", "s">>, t \o <<"e", "d">>,
                  t \o <<"i", "n", "g">>}
        adverb ==
            IF EndsWith(t, <<"a", "l">>) \/ EndsWith(t, <<"i", "c">>)
            THEN {t \o <<"l", "y">>}
            ELSE {}
    IN  inflected \cup adverb

\* sep.join(toks)
RECURSIVE Join(_, _)
Join(toks, sep) ==
    IF toks = <<>> THEN <<>>
    ELSE IF Len(toks) = 1 THEN toks[1]
    ELSE toks[1] \o sep \o Join(Tail(toks), sep)

expand_phrase_variants(phrase) ==
    LET toks == tokenize(phrase)
    IN  IF toks = <<>> THEN {}
        ELSE LET last_forms == morph_last_token_forms(toks[Len(toks)])
                 front == SubSeq(toks, 1, Len(toks) - 1)
                 stem_space == Join(front, <<" ">>)
                 stem_hyphen == Join(front, <<"-">>)
             IN  IF Len(toks) = 1 THEN last_forms \cup {toks[1]}
                 ELSE {Lower(phrase)}
                      \cup {stem_space \o <<" ">> \o lf : lf \in last_forms}
                      \cup {stem_hyphen \o <<"-">> \o lf : lf \in last_forms}

\* base_set = set(b.strip().lower() for b in base_list)
BaseSetOf(base_list) == {Lower(Strip(base_list[j])) : j \in 1..Len(base_list)}

\* the orders "for base in base_set" can visit a set of strings in: the order
\* of a Python set of str follows the hashes of its elements, which change
\* from one interpreter process to the next
IterationOrders(S) ==
    {p \in [1..Cardinality(S) -> S] : {p[j] : j \in 1..Cardinality(S)} = S}

\* one enumeration of a set whose order has no effect on the result
RECURSIVE SeqOfSet(_)
SeqOfSet(S) ==
    IF S = {} THEN <<>>
    ELSE LET x == CHOOSE y \in S : TRUE
         IN  <<x>> \o SeqOfSet(S \ {x})

\* seeds = {base} plus the normalised seed variants of the base
SeedsOf(base, seed_dict) ==
    {base} \cup
    (IF DictHas(seed_dict, base)
     THEN LET vs == DictGet(seed_dict, base)
          IN  {Lower(Strip(vs[j])) : j \in 1..Len(vs)}
     ELSE {})

\* all_variants of one base: every seed, exact and expanded
VariantsOfBase(base, seed_dict) ==
    UNION {expand_phrase_variants(sd) \cup {sd} : sd \in SeedsOf(base, seed_dict)}

\* the assignments variant_to_base[v] = base of the loop over the bases, in
\* the order the set of bases is iterated in
RECURSIVE Assignments(_, _)
Assignments(order, seed_dict) ==
    IF order = <<>> THEN <<>>
    ELSE LET base == Head(order)
             vs == SeqOfSet(VariantsOfBase(base, seed_dict))
         IN  [j \in 1..Len(vs) |-> <<vs[j], base>>] \o Assignments(Tail(order), seed_dict)

\* <<base_set, variant_to_base>>; order is the iteration order of base_set
build_variant_map(base_list, seed_dict, order) ==
    <<BaseSetOf(base_list), DictOf(Assignments(order, seed_dict))>>

(***************************************************************************)
(* build_regex_and_maps                                                    *)
(***************************************************************************)
\* a variant that joins an empty list of alternatives into the pattern (?:),
\* which matches the empty string
VariantsPatternEmptyJoin(sorted_variants) ==
    IF sorted_variants # <<>> THEN sorted_variants ELSE << <<>> >>

\* pat: the alternatives of the pattern; none when there is no variant, which
\* is what (?!x)x matches
variants_pattern(sorted_variants) ==
    IF sorted_variants # <<>> THEN sorted_variants ELSE <<>>

\* what build_regex_and_maps() returns when the two sets of bases are iterated
\* in green_order and ir_order; an empty alternation stands for (?!x)x
build_regex_and_maps(green_base, ir_base, green_order, ir_order) ==
    LET green == build_variant_map(green_base, VARIANTS_GREEN_SEED, green_order)
        ir == build_variant_map(ir_base, VARIANTS_IR_SEED, ir_order)
        v2b == DictUpdate(green[2], ir[2])
    IN  [variants_regex |-> variants_pattern(SortedByLenDesc(DictKeys(v2b))),
         variant_to_base |-> v2b,
         green_bases |-> green[1],
         ir_bases |-> ir[1]]

\* the build of a run with the model's vocabulary (no surface of it has two
\* owners in one taxonomy, so every iteration order gives this lookup)
DefaultMaps ==
    build_regex_and_maps(DefaultGreenBase, DefaultIrBase,
                         SeqOfSet(BaseSetOf(DefaultGreenBase)),
                         SeqOfSet(BaseSetOf(DefaultIrBase)))

\* the variant_to_base argument of the counting functions
variant_to_base == VARIANT_TO_BASE

\* the alternation of variants_regex, longest first
all_variants == VARIANTS_REGEX

(***************************************************************************)
(* The compiled pattern (?<!\w)(?:a1|a2|...)(?!\w), re.IGNORECASE.         *)
(***************************************************************************)
\* a variant without the look-ahead (?!\w)
MatchesAtNoLookahead(s, i, surf) ==
    /\ i + Len(surf) - 1 <= Len(s)
    /\ \A j \in 1..Len(surf) : LowerCh(s[i + j - 1]) = LowerCh(surf[j])
    /\ (i = 1 \/ s[i - 1] \notin WordChars)

\* alternative surf matches s at 1-based position i, look-arounds included
MatchesAt(s, i, surf) ==
    /\ i + Len(surf) - 1 <= Len(s)
    /\ \A j \in 1..Len(surf) : LowerCh(s[i + j - 1]) = LowerCh(surf[j])
    /\ (i = 1 \/ s[i - 1] \notin WordChars)
    /\ (i + Len(surf) > Len(s) \/ s[i + Len(surf)] \notin WordChars)

\* the first alternative (in pattern order) that matches at i, 0 when none does;
\* the look-behind is the same for every alternative
FirstAlt(s, i, alts) ==
    IF i > 1 /\ s[i - 1] \in WordChars THEN 0
    ELSE LET hits == {a \in 1..Len(alts) : MatchesAt(s, i, alts[a])}
         IN  IF hits = {} THEN 0
             ELSE CHOOSE a \in hits : \A b \in hits : a <= b

\* regex.finditer(s) from position i: leftmost, non-overlapping matches
RECURSIVE FindIterFrom(_, _, _)
FindIterFrom(s, i, alts) ==
    IF i > Len(s) THEN <<>>
    ELSE LET a == FirstAlt(s, i, alts)
         IN  IF a = 0 THEN FindIterFrom(s, i + 1, alts)
             ELSE LET n == Len(alts[a])
                  IN  <<[start |-> i - 1, end |-> i - 1 + n,
                         group |-> SubSeq(s, i, i + n - 1)]>>
                      \o FindIterFrom(s, IF n = 0 THEN i + 1 ELSE i + n, alts)

FindIter(s, alts) == FindIterFrom(s, 1, alts)

variants_regex_finditer(s) == FindIter(s, all_variants)

verbs_regex_finditer(s) == FindIter(s, VERB_SURFACES)

(***************************************************************************)
(* find_and_count_variants                                                 *)
(***************************************************************************)
\* the matches list [(start, end, base, surface)] of a text ("" or None: [])
find_and_count_variants(text) ==
    IF text = NoValue \/ text = <<>> THEN <<>>
    ELSE LET ms == variants_regex_finditer(Lower(text))
             Known(m) == DictGet(variant_to_base, Lower(m.group)) \notin {NoValue, <<>>}
             kept == SelectSeq(ms, Known)
         IN  [j \in 1..Len(kept) |->
                [start |-> kept[j].start, end |-> kept[j].end,
                 base |-> DictGet(variant_to_base, Lower(kept[j].group)),
                 surface |-> Lower(kept[j].group)]]

\* a variant that records a base once however often it occurs
RECURSIVE CountsDistinct(_, _)
CountsDistinct(ms, n) ==
    IF n = 0 THEN EmptyDict
    ELSE LET c == CountsDistinct(ms, n - 1)
             base == DictGet(variant_to_base, Lower(ms[n].group))
         IN  IF base \in {NoValue, <<>>} THEN c
             ELSE [b \in DOMAIN c \cup {base} |-> 1]

\* the Counter after the first n matches of the loop of lines 64-69:
\* counts_by_base[base] += 1 for every match whose surface has a base
RECURSIVE CounterAfter(_, _)
CounterAfter(ms, n) ==
    IF n = 0 THEN EmptyDict
    ELSE LET c == CounterAfter(ms, n - 1)
             base == DictGet(variant_to_base, Lower(ms[n].group))
         IN  IF base \in {NoValue, <<>>} THEN c
             ELSE [b \in DOMAIN c \cup {base} |->
                     IF b = base
                     THEN (IF b \in DOMAIN c THEN c[b] ELSE 0) + 1
                     ELSE c[b]]

\* the Counter find_and_count_variants returns ("" or None: Counter())
counts_by_base(text) ==
    IF text = NoValue \/ text = <<>> THEN EmptyDict
    ELSE LET ms == variants_regex_finditer(Lower(text))
         IN  CounterAfter(ms, Len(ms))

\* counts_by_base[b] after the loop over the matches
CountOfBase(matches, b) ==
    Cardinality({j \in 1..Len(matches) : matches[j].base = b})

\* a variant that counts the distinct bases, not their occurrences
SumCountsDistinct(matches, bases) ==
    Cardinality({matches[j].base : j \in {k \in 1..Len(matches) : matches[k].base \in bases}})

\* a variant that counts a base of both taxonomies for GreenTech only
SumCountsInExclusive(matches, bases) ==
    Cardinality({j \in 1..Len(matches) :
        /\ matches[j].base \in bases
        /\ bases = GREEN_BASE_SET_S \/ matches[j].base \notin GREEN_BASE_SET_S})

\* sum(c for b, c in counts_by_base.items() if b in bases)
SumCountsIn(matches, bases) ==
    Cardinality({j \in 1..Len(matches) : matches[j].base \in bases})

(***************************************************************************)
(* Units of the verb gate: _ITEM_SPLIT and _iter_field_items               *)
(***************************************************************************)
RECURSIVE SpaceRun(_, _)
\* the number of \s characters of s from position i on
SpaceRun(s, i) ==
    IF i <= Len(s) /\ s[i] \in SpaceChars THEN 1 + SpaceRun(s, i + 1) ELSE 0

\* length of the match of \s-\s+ at position i, 0 when there is none
ItemSplitLen(s, i) ==
    IF /\ i + 2 <= Len(s)
       /\ s[i] \in SpaceChars
       /\ s[i + 1] = "-"
       /\ s[i + 2] \in SpaceChars
    THEN 2 + SpaceRun(s, i + 2)
    ELSE 0

\* _ITEM_SPLIT.split(s): the pieces between the matches, empty ones included;
\* from is where the current piece starts, i the position being tried
RECURSIVE ItemSplitFrom(_, _, _)
ItemSplitFrom(s, from, i) ==
    IF i > Len(s) THEN <<SubSeq(s, from, Len(s))>>
    ELSE LET n == ItemSplitLen(s, i)
         IN  IF n = 0 THEN ItemSplitFrom(s, from, i + 1)
             ELSE <<SubSeq(s, from, i - 1)>> \o ItemSplitFrom(s, i + n, i + n)

ITEM_SPLIT_split(s) == ItemSplitFrom(s, 1, 1)

ItemFields == {"WORK ACTIVITY", "PERFORMANCE CRITERIA"}

\* the items the verb gate scores independently
iter_field_items(field, text) ==
    LET t == Strip(IF text = NoValue THEN <<>> ELSE text)
    IN  IF t = <<>> THEN <<>>
        ELSE IF field \in ItemFields
        THEN LET pieces == ITEM_SPLIT_split(t)
                 stripped == [j \in 1..Len(pieces) |-> Strip(pieces[j])]
                 NonEmpty(p) == p # <<>>
                 items == SelectSeq(stripped, NonEmpty)
             IN  IF items # <<>> THEN items ELSE <<t>>
        ELSE <<t>>

(***************************************************************************)
(* _count_verb_mode_units_for_field                                        *)
(***************************************************************************)
\* a variant with a non-strict comparison: v.start() <= k.start()
AnyVerbNotAfterKeyword(verbs, kws) ==
    \E v \in 1..Len(verbs) : \E k \in 1..Len(kws) : verbs[v].start <= kws[k].start

\* any(v.start() < k.start() for v in verbs for k in kws)
AnyVerbBeforeKeyword(verbs, kws) ==
    \E v \in 1..Len(verbs) : \E k \in 1..Len(kws) : verbs[v].start < kws[k].start

\* the item is not skipped by either continue
qualifies(item) ==
    LET s == Lower(item)
        verbs == verbs_regex_finditer(s)
        kws == variants_regex_finditer(s)
    IN  /\ kws # <<>>
        /\ verbs # <<>>
        /\ AnyVerbBeforeKeyword(verbs, kws)

\* a variant that counts only the keywords some verb of the item starts before
ItemUnitsAfterVerb(item, bases) ==
    LET s == Lower(item)
        verbs == verbs_regex_finditer(s)
        kws == variants_regex_finditer(s)
    IN  Cardinality({k \in 1..Len(kws) :
            /\ \E v \in 1..Len(verbs) : verbs[v].start < kws[k].start
            /\ DictGet(variant_to_base, Lower(kws[k].group)) \in bases})

\* what one item adds to the unit count of the taxonomy with base set bases
ItemUnits(item, bases) ==
    IF qualifies(item)
    THEN LET kws == variants_regex_finditer(Lower(item))
         IN  Cardinality({k \in 1..Len(kws) :
                LET base == DictGet(variant_to_base, Lower(kws[k].group))
                IN  base \notin {NoValue, <<>>} /\ base \in bases})
    ELSE 0

RECURSIVE SumItemUnits(_, _)
SumItemUnits(items, bases) ==
    IF items = <<>> THEN 0
    ELSE ItemUnits(Head(items), bases) + SumItemUnits(Tail(items), bases)

\* what the keyword matches of one item add, whether or not the item qualifies
ItemKeywordUnits(item, bases) ==
    LET kws == variants_regex_finditer(Lower(item))
    IN  Cardinality({k \in 1..Len(kws) :
            DictGet(variant_to_base, Lower(kws[k].group)) \in bases})

RECURSIVE SumItemKeywordUnits(_, _)
SumItemKeywordUnits(items, bases) ==
    IF items = <<>> THEN 0
    ELSE ItemKeywordUnits(Head(items), bases) + SumItemKeywordUnits(Tail(items), bases)

\* a variant that takes verbs and keywords from the whole text instead of the
\* item when it decides whether an item qualifies
CountVerbModeWholeText(field, text) ==
    IF text = NoValue \/ text = <<>> THEN <<0, 0>>
    ELSE LET items == iter_field_items(field, text)
         IN  IF qualifies(text)
             THEN <<SumItemKeywordUnits(items, GREEN_BASE_SET_S),
                    SumItemKeywordUnits(items, IR_BASE_SET_S)>>
             ELSE <<0, 0>>

\* <<gt_units, ir_units>>
count_verb_mode_units_for_field(field, text) ==
    IF text = NoValue \/ text = <<>> THEN <<0, 0>>
    ELSE LET items == iter_field_items(field, text)
         IN  <<SumItemUnits(items, GREEN_BASE_SET_S),
               SumItemUnits(items, IR_BASE_SET_S)>>

(***************************************************************************)
(* _SENT_SPLIT and count_keywords_with_optional_verbs                      *)
(***************************************************************************)
SentenceEnd == {".", "!", "?", ":", ";"}

RECURSIVE NewlineRun(_, _)
NewlineRun(s, i) ==
    IF i <= Len(s) /\ s[i] = "\n" THEN 1 + NewlineRun(s, i + 1) ELSE 0

\* length of the match of (?<=[\.\!\?\:;])\s+|\n+|\s-\s+ at position i, 0 when
\* there is none: the first alternative that matches there
SentSplitLen(s, i) ==
    IF i > 1 /\ s[i - 1] \in SentenceEnd /\ s[i] \in SpaceChars THEN SpaceRun(s, i)
    ELSE IF s[i] = "\n" THEN NewlineRun(s, i)
    ELSE ItemSplitLen(s, i)

\* _SENT_SPLIT.split(s): the pieces between the matches, empty ones included
RECURSIVE SentSplitFrom(_, _, _)
SentSplitFrom(s, from, i) ==
    IF i > Len(s) THEN <<SubSeq(s, from, Len(s))>>
    ELSE LET n == SentSplitLen(s, i)
         IN  IF n = 0 THEN SentSplitFrom(s, from, i + 1)
             ELSE <<SubSeq(s, from, i - 1)>> \o SentSplitFrom(s, i + n, i + n)

SENT_SPLIT_split(s) == SentSplitFrom(s, 1, 1)

\* lines 145-158: the Counter of the parts of a text, as a function from the
\* base terms counted to their counts
count_keywords_in_parts(text, require_verb_before) ==
    LET pieces == SENT_SPLIT_split(text)
        stripped == [j \in 1..Len(pieces) |-> Strip(pieces[j])]
        NonEmpty(q) == q # <<>>
        kept == SelectSeq(stripped, NonEmpty)
        parts == [j \in 1..Len(kept) |-> Lower(kept[j])]
        KwIter(j) == variants_regex_finditer(parts[j])
        Counted(j) ==
            /\ KwIter(j) # <<>>
            /\ require_verb_before =>
                  LET verbs == verbs_regex_finditer(parts[j])
                  IN  verbs # <<>> /\ AnyVerbBeforeKeyword(verbs, KwIter(j))
        BaseAt(h) == DictGet(variant_to_base, Lower(KwIter(h[1])[h[2]].group))
        hits == {h \in UNION {{<<j, k>> : k \in 1..Len(KwIter(j))} :
                                j \in {x \in 1..Len(parts) : Counted(x)}} :
                    BaseAt(h) \notin {NoValue, <<>>}}
    IN  [b \in {BaseAt(h) : h \in hits} |->
            Cardinality({h \in hits : BaseAt(h) = b})]

\* a variant without the guard of lines 142-143: _SENT_SPLIT.split(None) raises
CountKeywordsNoGuard(text, require_verb_before) ==
    IF text = NoValue THEN <<"TypeError">>
    ELSE count_keywords_in_parts(text, require_verb_before)

\* the Counter count_keywords_with_optional_verbs returns
count_keywords_with_optional_verbs(text, require_verb_before) ==
    IF text = NoValue \/ text = <<>> THEN EmptyDict
    ELSE count_keywords_in_parts(text, require_verb_before)

(***************************************************************************)
(* Double-precision arithmetic of the score expressions.                   *)
(* units / th and its product with the weight are IEEE-754 doubles         *)
(* (53-bit significand, round to nearest, ties to even); round() then      *)
(* rounds the double to an integer, ties to even.  A significand is kept   *)
(* in three limbs, 18 + 18 + 17 bits, so that every intermediate value     *)
(* fits a 32-bit integer for weights and thresholds below 2^7 and 2^8.     *)
(***************************************************************************)
\* 2^1 .. 2^30
Pow2Table ==
    <<2, 4, 8, 16, 32, 64, 128, 256, 512, 1024, 2048, 4096, 8192, 16384, 32768,
      65536, 131072, 262144, 524288, 1048576, 2097152, 4194304, 8388608,
      16777216, 33554432, 67108864, 134217728, 268435456, 536870912, 1073741824>>

\* 2^n for n <= 30 (1 for n <= 0)
Pow2(n) == IF n <= 0 THEN 1 ELSE Pow2Table[n]

RECURSIVE BitLen(_)
BitLen(n) == IF n <= 0 THEN 0 ELSE 1 + BitLen(n \div 2)

\* for 0 < c < th: the least k >= 1 with c * 2^k >= th, so c/th is in [2^-k, 2^-(k-1))
RECURSIVE NormExp(_, _, _)
NormExp(c, th, k) == IF c * Pow2(k) >= th THEN k ELSE NormExp(c, th, k + 1)

\* c / th for 0 < c < th: the double (l1*2^35 + l2*2^17 + l3) * 2^-(52+k)
FloatDiv(c, th) ==
    LET k == NormExp(c, th, 1)
        cn == c * Pow2(k - 1)
        l1 == (cn * Pow2(18)) \div th
        r1 == (cn * Pow2(18)) % th
        l2 == (r1 * Pow2(18)) \div th
        r2 == (r1 * Pow2(18)) % th
        l3 == (r2 * Pow2(17)) \div th
        r3 == (r2 * Pow2(17)) % th
        up == IF 2 * r3 > th \/ (2 * r3 = th /\ l3 % 2 = 1) THEN 1 ELSE 0
        m3 == l3 + up
        c3 == IF m3 = Pow2(17) THEN 1 ELSE 0
        m2 == l2 + c3
        c2 == IF m2 = Pow2(18) THEN 1 ELSE 0
    IN  [k |-> k, l1 |-> l1 + c2, l2 |-> m2 - c2 * Pow2(18), l3 |-> m3 - c3 * Pow2(17)]

\* round(q * w) for a double q = FloatDiv(c, th) and an integer weight w >= 1:
\* the exact product, rounded to a double, rounded to an integer
RoundProduct(q, w) ==
    LET p3 == w * q.l3
        q3 == p3 % Pow2(17)
        p2 == w * q.l2 + p3 \div Pow2(17)
        q2 == p2 % Pow2(18)
        h == w * q.l1 + p2 \div Pow2(18)
        \* bits of the exact product beyond 53
        d == BitLen(h) + 35 - 53
        low == IF d > 0 THEN q3 % Pow2(d) ELSE 0
        half == Pow2(d - 1)
        odd == (q3 \div Pow2(d)) % 2 = 1
        up == IF d > 0 /\ (low > half \/ (low = half /\ odd)) THEN Pow2(d) ELSE 0
        t3 == q3 - low + up
        u3 == IF t3 >= Pow2(17) THEN t3 - Pow2(17) ELSE t3
        t2 == q2 + (IF t3 >= Pow2(17) THEN 1 ELSE 0)
        u2 == IF t2 >= Pow2(18) THEN t2 - Pow2(18) ELSE t2
        uh == h + (IF t2 >= Pow2(18) THEN 1 ELSE 0)
        \* the double is (uh*2^35 + u2*2^17 + u3) * 2^-(52+k)
        sh == 17 + q.k
        int == uh \div Pow2(sh)
        hr == uh % Pow2(sh)
        hh == Pow2(sh - 1)
        rest == u2 # 0 \/ u3 # 0
    IN  IF hr > hh \/ (hr = hh /\ rest) THEN int + 1
        ELSE IF hr < hh THEN int
        ELSE IF int % 2 = 0 THEN int ELSE int + 1

\* a variant without the cap: int(round(w * (gt_units / th)))
GtScoreUncapped(w, gt_units, th) ==
    IF gt_units >= th THEN (2 * w * gt_units + th) \div (2 * th)
    ELSE IF gt_units = 0 \/ w = 0 THEN 0
    ELSE RoundProduct(FloatDiv(gt_units, th), w)

\* int(round(w * min(gt_units / th, 1.0)))
GtScore(w, gt_units, th) ==
    IF gt_units >= th THEN w
    ELSE IF gt_units = 0 \/ w = 0 THEN 0
    ELSE RoundProduct(FloatDiv(gt_units, th), w)

\* a variant that truncates instead of rounding: int(ir_units / th * w if ... else w)
IrScoreTruncated(w, ir_units, th) ==
    IF ir_units < th THEN (w * ir_units) \div th ELSE w

\* a variant whose saturated branch yields the threshold: ... else th
IrScoreElseThreshold(w, ir_units, th) ==
    IF ir_units < th
    THEN IF ir_units = 0 \/ w = 0 THEN 0
         ELSE RoundProduct(FloatDiv(ir_units, th), w)
    ELSE th

\* int(round(ir_units / th * w if (ir_units / th) < 1.0 else w))
IrScore(w, ir_units, th) ==
    IF ir_units < th
    THEN IF ir_units = 0 \/ w = 0 THEN 0
         ELSE RoundProduct(FloatDiv(ir_units, th), w)
    ELSE w

(***************************************************************************)
(* Defaults.                                                               *)
(***************************************************************************)
Fields == <<"CU TITLE", "CU DESCRIPTOR", "WORK ACTIVITY", "PERFORMANCE CRITERIA">>

FieldSet == {Fields[j] : j \in 1..Len(Fields)}

default_weights ==
    [f \in FieldSet |->
        CASE f = "CU TITLE" -> 5
          [] f = "CU DESCRIPTOR" -> 20
          [] f = "WORK ACTIVITY" -> 30
          [] f = "PERFORMANCE CRITERIA" -> 45]

default_thresholds ==
    [f \in FieldSet |->
        CASE f = "CU TITLE" -> 1
          [] f = "CU DESCRIPTOR" -> 3
          [] f = "WORK ACTIVITY" -> 3
          [] f = "PERFORMANCE CRITERIA" -> 3]

\* a CU total at or above this passes
cu_pass_threshold == 50

\* a pass percentage at or above this puts the document in the category
doc_share_threshold == 50

(***************************************************************************)
(* compute_field_scores_dynamic                                            *)
(***************************************************************************)
\* (cu.get(field, "") or "")
CuText(c, field) ==
    IF field \in DOMAIN c /\ c[field] # NoValue THEN c[field] ELSE <<>>

\* a variant without the clamp: thresholds.get(field, 1)
FieldThresholdNoClamp(ths, field) ==
    IF field \in DOMAIN ths THEN ths[field] ELSE 1

\* a variant that takes the magnitude: max(1, abs(thresholds.get(field, 1)))
FieldThresholdAbs(ths, field) ==
    LET t == IF field \in DOMAIN ths THEN ths[field] ELSE 1
        a == IF t < 0 THEN 0 - t ELSE t
    IN  IF a > 1 THEN a ELSE 1

\* max(1, thresholds.get(field, 1))
FieldThreshold(ths, field) ==
    LET t == IF field \in DOMAIN ths THEN ths[field] ELSE 1
    IN  IF t > 1 THEN t ELSE 1

\* a variant with one global switch: verb mode whenever a verb matcher is given
UsesVerbModeGlobal(field, von, vrf) == von

\* the branch taken: verb mode, or counting over the whole field
UsesVerbMode(field, von, vrf) == von /\ field \in vrf

\* <<gt_units, ir_units>> of one field
FieldUnits(c, field, von, vrf) ==
    LET text == CuText(c, field)
    IN  IF UsesVerbMode(field, von, vrf)
        THEN count_verb_mode_units_for_field(field, text)
        ELSE LET matches == find_and_count_variants(text)
             IN  <<SumCountsIn(matches, GREEN_BASE_SET_S),
                   SumCountsIn(matches, IR_BASE_SET_S)>>

\* the units of every field of weights
AllFieldUnits(c, ws, von, vrf) ==
    [f \in DOMAIN ws |-> FieldUnits(c, f, von, vrf)]

\* gt_scores, from the units of each field
GtScores(ws, ths, us) ==
    [f \in DOMAIN ws |-> GtScore(ws[f], us[f][1], FieldThreshold(ths, f))]

\* ir_scores, from the units of each field
IrScores(ws, ths, us) ==
    [f \in DOMAIN ws |-> IrScore(ws[f], us[f][2], FieldThreshold(ths, f))]

\* sum(scores.values())
RECURSIVE SumFrom(_, _)
SumFrom(scores, j) ==
    IF j > Len(Fields) THEN 0
    ELSE (IF Fields[j] \in DOMAIN scores THEN scores[Fields[j]] ELSE 0)
         + SumFrom(scores, j + 1)

\* a variant that leaves the first field out of the sum
SumValuesSkipFirst(scores) == SumFrom(scores, 2)

SumValues(scores) == SumFrom(scores, 1)

(***************************************************************************)
(* Document category (app.py).                                             *)
(***************************************************************************)
\* passed / total_cus * 100.0 >= 50, with pct = 0.0 when there are no CUs.
\* The quotient and its product with 100.0 are doubles; the rounding error of
\* the two operations is far below the distance of passed / total_cus from
\* 0.5 for any document's counts, so the comparison is the exact one.
PctAtLeastShare(passed, total_cus) ==
    total_cus > 0 /\ passed * 100 >= doc_share_threshold * total_cus

\* a variant that tests the GreenTech share before the combined case
CategoryGreenFirst(gt_pass, ir_pass, total_cus) ==
    IF PctAtLeastShare(gt_pass, total_cus) THEN "GREEN TECHNOLOGY"
    ELSE IF PctAtLeastShare(ir_pass, total_cus) THEN "IR4.0"
    ELSE IF gt_pass # 0 \/ ir_pass # 0 THEN "MATCHED LESS 50%"
    ELSE "UNMATCHED"

Category(gt_pass, ir_pass, total_cus) ==
    IF PctAtLeastShare(gt_pass, total_cus) /\ PctAtLeastShare(ir_pass, total_cus)
    THEN "IR4.0 + GREEN TECHNOLOGY"
    ELSE IF PctAtLeastShare(gt_pass, total_cus) THEN "GREEN TECHNOLOGY"
    ELSE IF PctAtLeastShare(ir_pass, total_cus) THEN "IR4.0"
    ELSE IF gt_pass # 0 \/ ir_pass # 0 THEN "MATCHED LESS 50%"
    ELSE "UNMATCHED"

(***************************************************************************)
(* ui/keywords_tab.py and utils/file_persist.py.  A custom dictionary is a *)
(* dict from the normalised base term to an entry; an entry is a record    *)
(* with the fields label and variants, or, in a file written by another    *)
(* hand, a record without the label.                                       *)
(***************************************************************************)
\* str.split(): the runs of characters between blanks; cur is the run read so far
RECURSIVE WordsFrom(_, _, _)
WordsFrom(s, i, cur) ==
    IF i > Len(s) THEN (IF cur = <<>> THEN <<>> ELSE <<cur>>)
    ELSE IF s[i] \in SpaceChars
    THEN (IF cur = <<>> THEN <<>> ELSE <<cur>>) \o WordsFrom(s, i + 1, <<>>)
    ELSE WordsFrom(s, i + 1, Append(cur, s[i]))

\* _norm: " ".join((s or "").strip().split()).lower()
norm(s) ==
    Lower(Join(WordsFrom(Strip(IF s = NoValue THEN <<>> ELSE s), 1, <<>>), <<" ">>))

VariantSep == {",", ";", "\n"}

\* the pieces of s between the separators , ; and newline, stripped
RECURSIVE VariantPartsFrom(_, _, _)
VariantPartsFrom(s, i, cur) ==
    IF i > Len(s) THEN <<Strip(cur)>>
    ELSE IF s[i] \in VariantSep
    THEN <<Strip(cur)>> \o VariantPartsFrom(s, i + 1, <<>>)
    ELSE VariantPartsFrom(s, i + 1, Append(cur, s[i]))

\* _split_variants: the non-empty pieces, the first of those with the same norm
split_variants(s) ==
    IF s = <<>> THEN <<>>
    ELSE LET parts == VariantPartsFrom(s, 1, <<>>)
             Kept(j) == /\ parts[j] # <<>>
                        /\ \A k \in 1..(j - 1) :
                              parts[k] = <<>> \/ norm(parts[k]) # norm(parts[j])
             keep == {j \in 1..Len(parts) : Kept(j)}
             Nth(m) == CHOOSE j \in keep : Cardinality({k \in keep : k <= j}) = m
         IN  [m \in 1..Cardinality(keep) |-> parts[Nth(m)]]

\* file_persist.load: the dict of the file, {} when the file is missing or
\* does not hold a dict
file_load(file) == IF file.holds = "dict" THEN file.data ELSE <<>>

\* the file after file_persist.save(prefix, data), and after file_persist.clear
SavedFile(data) == [holds |-> "dict", data |-> data]

NoFile == [holds |-> "nothing", data |-> <<>>]

\* default_bases of the tab: app.py passes IR_BASE_SET or GREEN_BASE_SET
default_bases(prefix) ==
    IF prefix = "ir" THEN BaseSetOf(IR_BASE) ELSE BaseSetOf(GREEN_BASE)

\* d.pop(k, None)
DictPop(d, k) ==
    LET Other(e) == e[1] # k
    IN  SelectSeq(d, Other)

\* next(k for k, v in custom_dict.items() if v["label"] == label): the key of
\* the first entry that carries the label
key_of_label(d, label) ==
    d[CHOOSE j \in 1..Len(d) :
         /\ d[j][2].label = label
         /\ \A k \in 1..(j - 1) : d[k][2].label # label][1]

\* a variant in which a renamed entry keeps its key
EditKeyKept(new_label, sel_key) == sel_key

\* line 155: new_key = _norm(new_label) if new_label else sel_key
edit_new_key(new_label, sel_key) ==
    IF new_label # <<>> THEN norm(new_label) ELSE sel_key

\* _persist: file_save writes a temporary file and replaces the file with it;
\* when it raises, the temporary file is removed, the file is as it was, and
\* _persist reports the error and returns.  JSON keeps a dict of strings and
\* lists of strings as it is, so the file is modelled by the dict it holds.
persist(saved, d, file) == IF saved THEN SavedFile(d) ELSE file

\* line 85 raises KeyError: an entry has no "label"
LabelMissing(d) == \E j \in 1..Len(d) : "label" \notin DOMAIN d[j][2]

\* line 85: [v["label"] for v in custom_dict.values()]
LabelsOf(d) == [j \in 1..Len(d) |-> d[j][2].label]

(***************************************************************************)
(* Inputs of the model.                                                    *)
(***************************************************************************)

\* longer texts, with capitals, several items and repeated keywords
ExtraTexts ==
    { <<"V", " ", "G">>,
      <<"G", "I", " ", "v">>,
      <<"v", " ", "g", " ", "-", " ", "g", " ", "-", " ", "v", " ", "i">>,
      <<"g", " ", "-", " ", "i", " ", "g", " ", " ", "-", " ", "v", " ", "g", "-", "i">>,
      <<"v", "g", " ", "g", " ", "-", " ", "g", "v", " ", "-", " ", "v", " ", "g", " ", "g", "i">>,
      <<"g", " ", "g", " ", "g", " ", "g", " ", "v">> }

\* every text of at most MaxLen characters, and the longer texts
Texts == UNION {[1..n -> Alphabet] : n \in 0..MaxLen} \cup ExtraTexts

\* the verbs_required_fields arguments drawn
VerbFieldSets == {{}, {"CU TITLE", "WORK ACTIVITY"}}

\* the weights drawn in SpecScore
WeightValues == (0..MaxW) \cup {default_weights[f] : f \in FieldSet}

\* the configured thresholds drawn in SpecScore
ThresholdValues == (-2)..MaxTh

\* the CU records documents are made of
CuEmpty == [f \in {"CU TITLE"} |-> <<>>]

CuFull ==
    [f \in FieldSet |->
        IF f = "CU TITLE" THEN <<"g", " ", "g">> ELSE <<"g", " ", "G", " ", "g">>]

CuGreen ==
    [f \in FieldSet |->
        CASE f = "CU TITLE" -> <<"v", " ", "g">>
          [] f = "CU DESCRIPTOR" -> <<>>
          [] f = "WORK ACTIVITY" -> <<"g", " ", "-", " ", "v", " ", "g">>
          [] f = "PERFORMANCE CRITERIA" -> <<"g", " ", "g", "-", "i", " ", "g">>]

CuIr ==
    [f \in FieldSet |->
        CASE f = "CU TITLE" -> <<"i">>
          [] f = "CU DESCRIPTOR" -> NoValue
          [] f = "WORK ACTIVITY" -> <<"v", " ", "-", " ", "i">>
          [] f = "PERFORMANCE CRITERIA" -> <<"i", " ", "i", " ", "i", " ", "i">>]

CuBoth ==
    [f \in FieldSet |->
        CASE f = "CU TITLE" -> <<"g", "i">>
          [] f = "CU DESCRIPTOR" -> <<"g", "i", " ", "v">>
          [] f = "WORK ACTIVITY" -> <<"v", " ", "g", "i">>
          [] f = "PERFORMANCE CRITERIA" ->
                <<"g", "i", " ", "-", " ", "g", "i", " ", "-", " ", "g", "i">>]

CuPartial ==
    [f \in FieldSet |->
        CASE f = "CU TITLE" -> <<"x">>
          [] f = "CU DESCRIPTOR" -> <<"g", " ", "i", " ", "g">>
          [] f = "WORK ACTIVITY" -> <<"v", " ", "g">>
          [] f = "PERFORMANCE CRITERIA" -> <<"i">>]

DocCUs == {CuEmpty, CuFull, CuGreen, CuIr, CuBoth, CuPartial}

\* every document of at most MaxCUs CUs
Docs == UNION {[1..n -> DocCUs] : n \in 0..MaxCUs}

\* the characters of the short texts given to the counting functions: a
\* keyword, a verb, another word character, a blank, a full stop, U+0130
CountAlphabet == {"g", "v", "x", " ", ".", CapitalIDot}

\* longer texts: sentences, items, word boundaries, capitals
CountExtraTexts ==
    { <<"v", ".", " ", "g">>,
      <<"v", " ", "g", ".", " ", "g">>,
      <<"g", ".", "\n", "v", " ", "g", "i">>,
      <<"v", " ", "g", " ", "-", " ", "g">>,
      <<"x", "g", " ", "g">>,
      <<"g", "_", " ", "0", "g", " ", "g", "s">>,
      <<"V", ":", " ", "G", "I", ";", " ", "i">>,
      <<CapitalIDot, " ", "g", " ", "i">>,
      <<"v", " ", CapitalIDot, "g">>,
      <<"g", " ", "v", " ", "g", " ", "-", " ", "g">>,
      <<"g", " ", "i", " ", "g">>,
      <<"v", " ", "g", "i", " ", "-", " ", "g", "i", " ", "i">> }

\* the text arguments drawn: every text of at most MaxCountLen characters,
\* the longer texts, and None
CountTexts ==
    UNION {[1..n -> CountAlphabet] : n \in 0..MaxCountLen}
        \cup CountExtraTexts \cup {NoValue}

\* the characters of the short phrases given to the expander: letters (al and
\* y are endings with forms of their own), a capital, a blank, a hyphen
PhraseAlphabet == {"a", "l", "y", "G", " ", "-"}

\* longer phrases: the ending ic, several tokens, blanks around the phrase
PhraseExtraTexts ==
    { <<"i", "c">>,
      <<"G", " ", "i", "c">>,
      <<"a", "-", "l", " ", "y", "y">>,
      <<" ", "g", " ", " ", "a", "l", " ">>,
      <<"g", "-", "-", "y", "\n">> }

\* the phrases drawn: every phrase of at most MaxPhraseLen characters and the
\* longer ones
Phrases == UNION {[1..n -> PhraseAlphabet] : n \in 0..MaxPhraseLen} \cup PhraseExtraTexts

\* the characters of the field texts SpecGate draws: a keyword, a verb, a
\* blank and the hyphen of the item delimiter
GateAlphabet == {"g", "v", " ", "-"}

\* longer texts: a word that is verb and keyword, a term of both taxonomies,
\* a delimiter written with newlines
GateExtraTexts ==
    { <<"g", " ", "-", " ", "v", " ", "g">>,
      <<"i", " ", "g", " ", "-", " ", "v", " ", "g", "i">>,
      <<"v", " ", "g", "\n", "-", "\n", "g", " ", "v", " ", "g">>,
      <<"g", "i", " ", "i", " ", "-", " ", " ", "G", " ", "V", " ", "g", "-", "i">> }

\* every text of at most MaxGateLen characters, and the longer texts
GateTexts == UNION {[1..n -> GateAlphabet] : n \in 0..MaxGateLen} \cup GateExtraTexts

\* the item texts of a Work Activity / Performance Criteria list: a table
\* cell or a line typed in tab 5; an empty one, one with blanks around it,
\* and ones that hold a hyphen
ItemTexts ==
    { <<>>,
      <<"g">>,
      <<"v", " ", "g">>,
      <<" ", "g", " ">>,
      <<"g", "-", "i">>,
      <<"-", " ", "g">>,
      <<"v", " ", "-", " ", "g">> }

\* the lists drawn: at most MaxItems items
ItemLists == UNION {[1..n -> ItemTexts] : n \in 0..MaxItems}

\* the persisted files SpecTab starts from: no file, a file that is not a
\* dict, an empty dict, entries written by the tab, and an entry without label
TabFiles ==
    { NoFile,
      [holds |-> "list", data |-> <<>>],
      SavedFile(<<>>),
      SavedFile(<< <<(<<"x">>), [label |-> <<"X">>, variants |-> <<>>]>> >>),
      SavedFile(<< <<(<<"x">>), [variants |-> << <<"c">> >>]>> >>),
      SavedFile(<< <<(<<"c">>), [label |-> <<"c">>, variants |-> <<>>]>>,
                   <<(<<"x">>), [variants |-> <<>>]>> >>) }

\* what the user types into "Base keyword" and "Variants"
NewBases == { <<>>, <<" ", "X", " ">>, <<"g">>, <<"c", " ", " ", "x">> }

NewVariantTexts == { <<>>, <<"c", ";", " ", "C", ",">> }

\* the files SpecEdit starts from: nothing was added by the user yet
EmptyTabFiles ==
    { NoFile,
      [holds |-> "list", data |-> <<>>],
      SavedFile(<<>>) }

\* what the user types into "Base label" of the Edit form: nothing, the
\* label of an entry in another case, a default term, a new term
EditLabels ==
    { <<>>, <<"x">>, <<"g">>, <<" ", "l", " ">> }

\* the field texts scored after the tab was used
TabTexts == { <<"x">>, <<"g">>, <<"c", " ", "x">> }

\* the parameters of compute_field_scores_dynamic, in order; the first
\* ScoreRequired have no default
ScoreParams ==
    <<"cu", "weights", "thresholds", "variants_regex", "variant_to_base",
      "green_bases", "ir_bases", "verbs_regex", "verbs_required_fields">>

ScoreRequired == 7

\* Python's binding of a call with npos positional arguments and the keyword
\* arguments kw to params raises TypeError: too many positional arguments, an
\* unexpected keyword, a parameter given twice, or a required one missing
BindingFails(params, required, npos, kw) ==
    \/ npos > Len(params)
    \/ \E k \in kw : \A j \in 1..Len(params) : params[j] # k
    \/ \E j \in 1..Len(params) : j <= npos /\ params[j] \in kw
    \/ \E j \in 1..required : j > npos /\ params[j] \notin kw

\* the field texts of the CUs SpecCall scores: repeated and distinct base terms
CallTexts ==
    { <<>>,
      <<"g">>,
      <<"g", " ", "g">>,
      <<"v", " ", "g", " ", "g">>,
      <<"v", " ", "g", " ", "i", " ", "g", " ", "i">>,
      <<"g", " ", "g", "i", " ", "G">>,
      <<"v", " ", "g", " ", "-", " ", "v", " ", "g">>,
      <<"g", " ", "g", " ", "-", " ", "v", " ", "i", " ", "i">> }

\* the <<GREEN_BASE, IR_BASE>> lists SpecBuild draws: no term at all, the
\* model's vocabulary, two GreenTech terms one of which is an inflection of the
\* other (in both list orders, and written with capitals and blanks), and a
\* GreenTech term whose inflection is an IR4 term
BaseListPairs ==
    { << <<>>, <<>> >>,
      <<DefaultGreenBase, DefaultIrBase>>,
      << << <<"g">>, <<"g", "s">> >>, << <<"i">> >> >>,
      << << <<"g", "s">>, <<"g">> >>, << <<"i">> >> >>,
      << << <<" ", "G">>, <<"G", "S", " ">>, <<"g">> >>, <<>> >>,
      << << <<"g">> >>, << <<"g", "s">> >> >> }

\* the field texts scored after a build
BuildTexts ==
    { <<>>,
      <<"g">>,
      <<"g", "s">>,
      <<"v", " ", "g", "s", " ", "g">>,
      <<"i", " ", "G", "I">>,
      <<"g", " ", "-", " ", "g", "s">> }

(***************************************************************************)
(* Actions.                                                                *)
(***************************************************************************)
\* the body of compute_field_scores_dynamic(c, ws, ths, ..., verbs_regex, vrf):
\* the units of every field, then the two score dicts
Score(c, ws, ths, von, vrf) ==
    /\ units' = AllFieldUnits(c, ws, von, vrf)
    /\ gt_scores' = GtScores(ws, ths, units')
    /\ ir_scores' = IrScores(ws, ths, units')

\* the module-level names of app.py after its build at start-up
BuiltDefault ==
    /\ GREEN_BASE = DefaultGreenBase
    /\ IR_BASE = DefaultIrBase
    /\ VARIANTS_REGEX = DefaultMaps.variants_regex
    /\ VARIANT_TO_BASE = DefaultMaps.variant_to_base
    /\ GREEN_BASE_SET_S = DefaultMaps.green_bases
    /\ IR_BASE_SET_S = DefaultMaps.ir_bases
    /\ builds = <<DictItems(DefaultMaps.variant_to_base)>>

\* no call has failed; the counting mode is the one of the module header
CallIdle ==
    /\ count_mode = "repeated"
    /\ call_error = ""

\* no keywords tab has been opened and nothing is persisted
TabIdle ==
    /\ state_prefix = "gt"
    /\ kw_file = NoFile
    /\ custom_dict = <<>>
    /\ boot_flag = FALSE
    /\ added_labels = <<>>
    /\ tab_error = ""

\* no counting function has been applied
CountIdle ==
    /\ in_text = <<>>
    /\ called = {}
    /\ out_matches = <<>>
    /\ out_by_base = EmptyDict
    /\ out_units = <<0, 0>>
    /\ out_counts = EmptyDict
    /\ out_variants = {}
    /\ in_items = <<>>
    /\ out_items = <<>>

AuxIdle == CallIdle /\ TabIdle /\ CountIdle

NoResults ==
    /\ units = EmptyDict
    /\ gt_scores = EmptyDict
    /\ ir_scores = EmptyDict
    /\ summary_rows = <<>>
    /\ gt_ge50 = 0
    /\ ir_ge50 = 0
    /\ final_category = ""

(* The document run: app.py tab 1 / build_pdf_for_single. *)
Init ==
    /\ BuiltDefault
    /\ pc = "loop"
    /\ cu_blocks \in Docs
    /\ cu = EmptyDict
    /\ weights = default_weights
    /\ thresholds = default_thresholds
    /\ verbs_on \in BOOLEAN
    /\ verbs_required_fields \in VerbFieldSets
    /\ NoResults
    /\ AuxIdle

\* one iteration of "for cu in cu_blocks": score the CU, total it, count passes
AnalyzeCU ==
    /\ pc = "loop"
    /\ Len(summary_rows) < Len(cu_blocks)
    /\ cu' = cu_blocks[Len(summary_rows) + 1]
    /\ Score(cu', weights, thresholds, verbs_on, verbs_required_fields)
    /\ LET total_gt == SumValues(gt_scores')
           total_ir == SumValues(ir_scores')
       IN  /\ summary_rows' = Append(summary_rows, <<total_gt, total_ir>>)
           /\ gt_ge50' = gt_ge50 + (IF total_gt >= cu_pass_threshold THEN 1 ELSE 0)
           /\ ir_ge50' = ir_ge50 + (IF total_ir >= cu_pass_threshold THEN 1 ELSE 0)
    /\ UNCHANGED <<pc, cu_blocks, weights, thresholds, verbs_on,
                   verbs_required_fields, final_category>>
    /\ UNCHANGED <<mapVars, auxVars>>

\* after the loop: the document-level category
Categorize ==
    /\ pc = "loop"
    /\ Len(summary_rows) = Len(cu_blocks)
    /\ final_category' = Category(gt_ge50, ir_ge50, Len(summary_rows))
    /\ pc' = "done"
    /\ UNCHANGED <<cu_blocks, cu, weights, thresholds, verbs_on,
                   verbs_required_fields, units, gt_scores, ir_scores,
                   summary_rows, gt_ge50, ir_ge50>>
    /\ UNCHANGED <<mapVars, auxVars>>

Next == AnalyzeCU \/ Categorize

Spec == Init /\ [][Next]_vars

(* One field scored from its text: compute_field_scores_dynamic on a CU and *)
(* a weights dict of one field.  The CU holds the text, holds None, or does *)
(* not hold the field.                                                      *)
InitField ==
    /\ BuiltDefault
    /\ pc = "idle"
    /\ cu_blocks = <<>>
    /\ \E field \in FieldSet :
          /\ weights = [f \in {field} |-> default_weights[f]]
          /\ cu \in {[f \in {field} |-> text] : text \in Texts \cup {NoValue}}
                    \cup {EmptyDict}
    /\ thresholds = default_thresholds
    /\ verbs_on \in BOOLEAN
    /\ verbs_required_fields \in VerbFieldSets
    /\ NoResults
    /\ AuxIdle

ScoreField ==
    /\ pc = "idle"
    /\ Score(cu, weights, thresholds, verbs_on, verbs_required_fields)
    /\ pc' = "scored"
    /\ UNCHANGED <<cu_blocks, cu, weights, thresholds, verbs_on,
                   verbs_required_fields, summary_rows, gt_ge50, ir_ge50,
                   final_category>>
    /\ UNCHANGED <<mapVars, auxVars>>

NextField == ScoreField

SpecField == InitField /\ [][NextField]_vars

(* The two score expressions on given unit counts.  Every pair of counts is *)
(* the count of some field text (c occurrences of a GreenTech surface and d *)
(* of an IR4 surface), so the counts are drawn instead of a text.           *)
InitScore ==
    /\ BuiltDefault
    /\ pc = "idle"
    /\ cu_blocks = <<>>
    /\ cu = EmptyDict
    /\ \E field \in FieldSet :
          /\ weights \in {[f \in {field} |-> w] : w \in WeightValues}
          /\ thresholds \in {EmptyDict}
                \cup {[f \in {field} |-> t] : t \in ThresholdValues}
          /\ units \in {[f \in {field} |-> <<gt_units, ir_units>>] :
                          gt_units \in 0..MaxUnits, ir_units \in 0..MaxUnits}
    /\ verbs_on = FALSE
    /\ verbs_required_fields = {}
    /\ gt_scores = EmptyDict
    /\ ir_scores = EmptyDict
    /\ summary_rows = <<>>
    /\ gt_ge50 = 0
    /\ ir_ge50 = 0
    /\ final_category = ""
    /\ AuxIdle

\* lines 194-195 on the drawn counts
ScoreUnits ==
    /\ pc = "idle"
    /\ gt_scores' = GtScores(weights, thresholds, units)
    /\ ir_scores' = IrScores(weights, thresholds, units)
    /\ pc' = "scored_units"
    /\ UNCHANGED <<cu_blocks, cu, weights, thresholds, verbs_on,
                   verbs_required_fields, units, summary_rows, gt_ge50, ir_ge50,
                   final_category>>
    /\ UNCHANGED <<mapVars, auxVars>>

NextScore == ScoreUnits

SpecScore == InitScore /\ [][NextScore]_vars

(* The matcher build: app.py builds the matcher and the lookup when it     *)
(* starts (line 46), then scores field texts with them.  Every start is a  *)
(* new interpreter process.                                                *)
InitBuild ==
    /\ pc = "start"
    /\ \E lists \in BaseListPairs :
          /\ GREEN_BASE = lists[1]
          /\ IR_BASE = lists[2]
    /\ VARIANTS_REGEX = <<>>
    /\ VARIANT_TO_BASE = <<>>
    /\ GREEN_BASE_SET_S = {}
    /\ IR_BASE_SET_S = {}
    /\ builds = <<>>
    /\ cu_blocks = <<>>
    /\ cu = EmptyDict
    /\ weights = default_weights
    /\ thresholds = default_thresholds
    /\ verbs_on \in BOOLEAN
    /\ verbs_required_fields = {"CU TITLE", "WORK ACTIVITY"}
    /\ NoResults
    /\ AuxIdle

\* VARIANTS_REGEX, VARIANT_TO_BASE, GREEN_BASE_SET_S, IR_BASE_SET_S = build_regex_and_maps()
BuildRegexAndMaps ==
    /\ pc = "start"
    /\ \E green_order \in IterationOrders(BaseSetOf(GREEN_BASE)) :
       \E ir_order \in IterationOrders(BaseSetOf(IR_BASE)) :
          LET built == build_regex_and_maps(GREEN_BASE, IR_BASE, green_order, ir_order)
          IN  /\ VARIANTS_REGEX' = built.variants_regex
              /\ VARIANT_TO_BASE' = built.variant_to_base
              /\ GREEN_BASE_SET_S' = built.green_bases
              /\ IR_BASE_SET_S' = built.ir_bases
              /\ builds' = Append(builds, DictItems(built.variant_to_base))
    /\ pc' = "built"
    /\ UNCHANGED <<GREEN_BASE, IR_BASE, cu_blocks, cu, weights, thresholds, verbs_on,
                   verbs_required_fields, units, gt_scores, ir_scores, summary_rows,
                   gt_ge50, ir_ge50, final_category>>
    /\ UNCHANGED auxVars

\* a CU whose four fields hold one text is scored with what was built
ScoreBuilt ==
    /\ pc = "built"
    /\ \E text \in BuildTexts : cu' = [f \in FieldSet |-> text]
    /\ Score(cu', weights, thresholds, verbs_on, verbs_required_fields)
    /\ pc' = "scored"
    /\ UNCHANGED <<cu_blocks, weights, thresholds, verbs_on, verbs_required_fields,
                   summary_rows, gt_ge50, ir_ge50, final_category>>
    /\ UNCHANGED <<mapVars, auxVars>>

\* the app is started again, with the same vocabulary
RestartApp ==
    /\ pc \in {"built", "scored"}
    /\ Len(builds) < MaxBuilds
    /\ pc' = "start"
    /\ UNCHANGED <<cu_blocks, cu, weights, thresholds, verbs_on, verbs_required_fields,
                   units, gt_scores, ir_scores, summary_rows, gt_ge50, ir_ge50,
                   final_category>>
    /\ UNCHANGED <<mapVars, auxVars>>

NextBuild == BuildRegexAndMaps \/ ScoreBuilt \/ RestartApp

SpecBuild == InitBuild /\ [][NextBuild]_vars

(***************************************************************************)
(* Field score claims, checked under SpecScore.                            *)
(***************************************************************************)
\* the fields scored by the last run
Scored == DOMAIN gt_scores

\* max(t, 1) of the claims, t the configured threshold (1 when none is configured)
RefThreshold(f) ==
    IF f \in DOMAIN thresholds /\ thresholds[f] >= 1 THEN thresholds[f] ELSE 1

\* round(w * min(c / th, 1.0)) in Python's arithmetic, th >= 1
RefScore(w, c, th) ==
    IF c >= th THEN w
    ELSE IF c = 0 \/ w = 0 THEN 0
    ELSE RoundProduct(FloatDiv(c, th), w)

\* s is an integer nearest to w * min(c / th, 1)
NearestInteger(s, w, c, th) ==
    IF c >= th THEN s = w
    ELSE 2 * s * th - 2 * w * c \in (0 - th)..th

\* C1: both scores of every field are round(w * min(c / max(t, 1), 1.0)), an
\* integer nearest to w * min(c / max(t, 1), 1), and the GreenTech and the IR4
\* expression give the same integer on equal counts.
C1_ScoreFormula ==
    pc = "scored_units" =>
        \A f \in Scored :
            LET th == RefThreshold(f)
            IN  /\ gt_scores[f] = RefScore(weights[f], units[f][1], th)
                /\ ir_scores[f] = RefScore(weights[f], units[f][2], th)
                /\ NearestInteger(gt_scores[f], weights[f], units[f][1], th)
                /\ NearestInteger(ir_scores[f], weights[f], units[f][2], th)
                /\ (units[f][1] = units[f][2] => gt_scores[f] = ir_scores[f])

\* 45 * (7 / 10) is the double 31.499999999999996: both scores are 31
C1_Witness ==
    /\ pc = "scored_units"
    /\ \E f \in Scored :
          /\ weights[f] = 45
          /\ f \in DOMAIN thresholds /\ thresholds[f] = 10
          /\ units[f] = <<7, 7>>
          /\ gt_scores[f] = 31
          /\ ir_scores[f] = 31

\* C2: every field score of either taxonomy lies in 0..weight.
C2_ScoreRange ==
    pc = "scored_units" =>
        \A f \in Scored :
            /\ gt_scores[f] \in 0..weights[f]
            /\ ir_scores[f] \in 0..weights[f]

C2_Witness ==
    /\ pc = "scored_units"
    /\ \E f \in Scored :
          /\ gt_scores[f] > 0 /\ gt_scores[f] < weights[f]
          /\ units[f][2] > RefThreshold(f)
          /\ ir_scores[f] = weights[f]

\* C3: a count at or above the clamped threshold scores the weight exactly, and
\* so does every larger count.
C3_Saturation ==
    pc = "scored_units" =>
        \A f \in Scored :
            LET th == RefThreshold(f)
            IN  /\ units[f][1] >= th =>
                    /\ gt_scores[f] = weights[f]
                    /\ \A c \in units[f][1]..(MaxUnits + 1) :
                          GtScore(weights[f], c, FieldThreshold(thresholds, f)) = weights[f]
                /\ units[f][2] >= th =>
                    /\ ir_scores[f] = weights[f]
                    /\ \A c \in units[f][2]..(MaxUnits + 1) :
                          IrScore(weights[f], c, FieldThreshold(thresholds, f)) = weights[f]

C3_Witness ==
    /\ pc = "scored_units"
    /\ \E f \in Scored :
          /\ RefThreshold(f) = 3
          /\ units[f] = <<3, 7>>
          /\ weights[f] = 20
          /\ gt_scores[f] = 20
          /\ ir_scores[f] = 20

\* C4: for fixed weight and threshold a larger count never scores less; for
\* fixed weight and count a larger configured threshold never scores more.
C4_Monotone ==
    pc = "scored_units" =>
        \A f \in Scored :
            LET w == weights[f]
                th == FieldThreshold(thresholds, f)
            IN  /\ \A c \in units[f][1]..(MaxUnits + 1) : GtScore(w, c, th) >= gt_scores[f]
                /\ \A c \in units[f][2]..(MaxUnits + 1) : IrScore(w, c, th) >= ir_scores[f]
                /\ f \in DOMAIN thresholds =>
                      \A t \in thresholds[f]..(MaxTh + 1) :
                          LET th2 == FieldThreshold([g \in {f} |-> t], f)
                          IN  /\ GtScore(w, units[f][1], th2) <= gt_scores[f]
                              /\ IrScore(w, units[f][2], th2) <= ir_scores[f]

\* 5 * (1 / 2) = 2.5 rounds to the even 2; one more unit gives 5, one more
\* threshold gives 2 (5/3)
C4_Witness ==
    /\ pc = "scored_units"
    /\ \E f \in Scored :
          /\ weights[f] = 5
          /\ f \in DOMAIN thresholds /\ thresholds[f] = 2
          /\ units[f] = <<1, 1>>
          /\ gt_scores[f] = 2
          /\ ir_scores[f] = 2
          /\ GtScore(5, 2, 2) = 5
          /\ IrScore(5, 1, 3) = 2
          /\ IrScore(5, 1, 4) = 1

\* C5: a configured threshold <= 0, or none, is treated as 1: the score is the
\* weight as soon as the count is >= 1 and 0 when the count is 0.
C5_ThresholdClamp ==
    pc = "scored_units" =>
        \A f \in Scored :
            (f \notin DOMAIN thresholds \/ thresholds[f] <= 0) =>
                /\ gt_scores[f] = (IF units[f][1] >= 1 THEN weights[f] ELSE 0)
                /\ ir_scores[f] = (IF units[f][2] >= 1 THEN weights[f] ELSE 0)

C5_Witness ==
    /\ pc = "scored_units"
    /\ \E f \in Scored :
          /\ f \in DOMAIN thresholds /\ thresholds[f] = 0
          /\ weights[f] = 30
          /\ units[f] = <<0, 1>>
          /\ gt_scores[f] = 0
          /\ ir_scores[f] = 30

(***************************************************************************)
(* CU totals and the document category, checked under Spec.                *)
(***************************************************************************)
\* the sum of the weights
WeightTotal ==
    default_weights["CU TITLE"] + default_weights["CU DESCRIPTOR"]
    + default_weights["WORK ACTIVITY"] + default_weights["PERFORMANCE CRITERIA"]

\* C6: the total of a CU is the sum of its four field scores, for each
\* taxonomy, and with the default weights every total lies in 0..100.
C6_CuTotal ==
    /\ WeightTotal = 100
    /\ \A j \in 1..Len(summary_rows) :
          /\ summary_rows[j][1] \in 0..100
          /\ summary_rows[j][2] \in 0..100
    /\ summary_rows # <<>> =>
          LET row == summary_rows[Len(summary_rows)]
          IN  /\ DOMAIN gt_scores = FieldSet
              /\ DOMAIN ir_scores = FieldSet
              /\ row[1] = gt_scores["CU TITLE"] + gt_scores["CU DESCRIPTOR"]
                          + gt_scores["WORK ACTIVITY"] + gt_scores["PERFORMANCE CRITERIA"]
              /\ row[2] = ir_scores["CU TITLE"] + ir_scores["CU DESCRIPTOR"]
                          + ir_scores["WORK ACTIVITY"] + ir_scores["PERFORMANCE CRITERIA"]

\* a CU with a partial total, then the CU that saturates every field
C6_Witness ==
    /\ Len(summary_rows) = 2
    /\ summary_rows[1] = <<23, 15>>
    /\ summary_rows[2] = <<100, 0>>
    /\ cu = CuFull

\* the number of CUs whose total of column col passes
RefPassCount(col) ==
    Cardinality({j \in 1..Len(summary_rows) : summary_rows[j][col] >= 50})

\* C7: the category is decided from the two pass counts and the CU count in
\* the stated order; exactly one of the five labels results; a document
\* without CUs is unmatched.
C7_Category ==
    pc = "done" =>
        LET n == Len(cu_blocks)
            g == RefPassCount(1)
            i == RefPassCount(2)
            gHalf == n > 0 /\ 2 * g >= n
            iHalf == n > 0 /\ 2 * i >= n
        IN  /\ g = gt_ge50 /\ i = ir_ge50 /\ n = Len(summary_rows)
            /\ final_category \in {"IR4.0 + GREEN TECHNOLOGY", "GREEN TECHNOLOGY",
                                   "IR4.0", "MATCHED LESS 50%", "UNMATCHED"}
            /\ (final_category = "IR4.0 + GREEN TECHNOLOGY") = (gHalf /\ iHalf)
            /\ (final_category = "GREEN TECHNOLOGY") = (gHalf /\ ~iHalf)
            /\ (final_category = "IR4.0") = (iHalf /\ ~gHalf)
            /\ (final_category = "MATCHED LESS 50%")
                  = (~gHalf /\ ~iHalf /\ (g > 0 \/ i > 0))
            /\ (final_category = "UNMATCHED") = (~gHalf /\ ~iHalf /\ g = 0 /\ i = 0)
            /\ (n = 0 => final_category = "UNMATCHED")

\* three CUs, one passing GreenTech (33%) and two passing IR4 (67%)
C7_Witness ==
    /\ pc = "done"
    /\ Len(cu_blocks) = 3
    /\ gt_ge50 = 1
    /\ ir_ge50 = 2
    /\ final_category = "IR4.0"

(***************************************************************************)
(* Verb gate claims, checked under SpecField.                              *)
(***************************************************************************)
\* the field is scored in verb mode
Gated(f) == verbs_on /\ f \in verbs_required_fields

\* the units the gate works on
UnitsOf(f) == iter_field_items(f, CuText(cu, f))

\* start offsets of the verb matches and of the keyword matches of a unit
RefVerbStarts(item) ==
    LET ms == verbs_regex_finditer(Lower(item))
    IN  {ms[j].start : j \in 1..Len(ms)}

RefKeywordStarts(item) ==
    LET ms == variants_regex_finditer(Lower(item))
    IN  {ms[j].start : j \in 1..Len(ms)}

SetMin(S) == CHOOSE x \in S : \A y \in S : x <= y

SetMax(S) == CHOOSE x \in S : \A y \in S : x >= y

\* the unit has a verb match and a keyword match, and its first verb starts
\* strictly before its last keyword
RefQualifies(item) ==
    LET verb_starts == RefVerbStarts(item)
        keyword_starts == RefKeywordStarts(item)
    IN  /\ verb_starts # {}
        /\ keyword_starts # {}
        /\ SetMin(verb_starts) < SetMax(keyword_starts)

\* C8: a unit qualifies iff it has a verb match and a keyword match with the
\* verb's start strictly before the keyword's start; a gated field none of
\* whose units qualifies counts nothing, and one with a qualifying unit counts.
C8_UnitQualifies ==
    pc = "scored" =>
        \A f \in Scored :
            LET items == UnitsOf(f)
            IN  /\ \A j \in 1..Len(items) : qualifies(items[j]) = RefQualifies(items[j])
                /\ \A j \in 1..Len(items) :
                      (\/ RefVerbStarts(items[j]) = {}
                       \/ RefKeywordStarts(items[j]) = {}
                       \/ \A v \in RefVerbStarts(items[j]) :
                             \A k \in RefKeywordStarts(items[j]) : v >= k)
                      => ~qualifies(items[j])
                /\ Gated(f) =>
                      (units[f] = <<0, 0>>)
                        = (\A j \in 1..Len(items) : ~RefQualifies(items[j]))

\* "g v g": the verb at 2 starts before the keyword at 4, both keywords count
C8_Witness ==
    /\ pc = "scored"
    /\ \E f \in Scored :
          /\ Gated(f)
          /\ CuText(cu, f) = <<"g", " ", "v", " ", "g">>
          /\ units[f] = <<2, 0>>

RECURSIVE RefSumAlone(_, _, _)
\* the sum, over the units, of what each unit counts as a field text of its own
RefSumAlone(f, items, col) ==
    IF items = <<>> THEN 0
    ELSE count_verb_mode_units_for_field(f, Head(items))[col]
         + RefSumAlone(f, Tail(items), col)

\* C9: in a gated field every unit counts what it counts on its own, whatever
\* the other units hold: the field's counts are the sums of its units' own
\* counts, and a unit counts only if it qualifies by its own verb and keyword.
C9_Locality ==
    pc = "scored" =>
        \A f \in Scored :
            Gated(f) =>
                LET items == UnitsOf(f)
                IN  /\ units[f][1] = RefSumAlone(f, items, 1)
                    /\ units[f][2] = RefSumAlone(f, items, 2)
                    /\ \A j \in 1..Len(items) :
                          count_verb_mode_units_for_field(f, items[j]) # <<0, 0>>
                            => RefQualifies(items[j])

\* "v - g": the verb of the first item does not make the keyword of the second count
C9_Witness ==
    /\ pc = "scored"
    /\ \E f \in Scored :
          /\ Gated(f)
          /\ f = "WORK ACTIVITY"
          /\ CuText(cu, f) = <<"v", " ", "-", " ", "g">>
          /\ Len(UnitsOf(f)) = 2
          /\ units[f] = <<0, 0>>

\* the keyword occurrences of the whole text whose base is in bases
RefOccurrences(text, bases) ==
    LET ms == variants_regex_finditer(Lower(text))
    IN  Cardinality({j \in 1..Len(ms) :
            DictGet(variant_to_base, Lower(ms[j].group)) \in bases})

\* C10: a field that is not gated (no verb matcher, or the field is not in the
\* verb-required set) counts every keyword occurrence of the whole text.
C10_Ungated ==
    pc = "scored" =>
        \A f \in Scored :
            ~Gated(f) =>
                units[f] = <<RefOccurrences(CuText(cu, f), GREEN_BASE_SET_S),
                             RefOccurrences(CuText(cu, f), IR_BASE_SET_S)>>

\* other fields are gated, this one is not: "g v" counts although no verb
\* starts before the keyword
C10_Witness ==
    /\ pc = "scored"
    /\ verbs_on
    /\ verbs_required_fields # {}
    /\ \E f \in Scored :
          /\ f \notin verbs_required_fields
          /\ CuText(cu, f) = <<"g", " ", "v">>
          /\ units[f] = <<1, 0>>

(* The call of the scoring entry point.  app.py (tab 1 and tab 5) and       *)
(* build_pdf_for_single call compute_field_scores_dynamic on every CU; the  *)
(* session holds the counting mode chosen in the settings tab.              *)
InitCall ==
    /\ BuiltDefault
    /\ pc = "ready"
    /\ cu_blocks = <<>>
    /\ cu \in {[f \in FieldSet |-> text] : text \in CallTexts}
    /\ weights = default_weights
    /\ thresholds = default_thresholds
    /\ verbs_on \in BOOLEAN
    /\ verbs_required_fields \in VerbFieldSets
    /\ NoResults
    /\ count_mode \in {"different", "repeated"}
    /\ call_error = ""
    /\ TabIdle
    /\ CountIdle

\* tab 2, "Apply settings": st.session_state.count_mode = "different" or "repeated"
SetCountMode ==
    /\ pc = "ready"
    /\ \E mode \in {"different", "repeated"} :
          /\ mode # count_mode
          /\ count_mode' = mode
    /\ UNCHANGED <<scoreVars, mapVars, call_error, tabVars, countVars>>

\* compute_field_scores_dynamic(cu, W, T, MODE, VARIANTS_REGEX, VARIANT_TO_BASE,
\*     GREEN_BASE_SET_S, IR_BASE_SET_S, use_verbs=USE_VERBS, verbs_regex=VERBS_REGEX):
\* the call raises before the body runs
CallFromApp ==
    /\ pc = "ready"
    /\ BindingFails(ScoreParams, ScoreRequired, 8, {"use_verbs", "verbs_regex"})
    /\ call_error' = "TypeError"
    /\ pc' = "called"
    /\ UNCHANGED <<cu_blocks, cu, weights, thresholds, verbs_on, verbs_required_fields,
                   units, gt_scores, ir_scores, summary_rows, gt_ge50, ir_ge50,
                   final_category>>
    /\ UNCHANGED <<mapVars, count_mode, tabVars, countVars>>

\* compute_field_scores_dynamic(cu, weights, thresholds, variants_regex, variant_to_base,
\*     green_bases, ir_bases, verbs_regex=..., verbs_required_fields=...): no mode is
\* passed and the body counts every occurrence
CallFromPdfBuilder ==
    /\ pc = "ready"
    /\ ~BindingFails(ScoreParams, ScoreRequired, 7, {"verbs_regex", "verbs_required_fields"})
    /\ Score(cu, weights, thresholds, verbs_on, verbs_required_fields)
    /\ call_error' = ""
    /\ pc' = "called"
    /\ UNCHANGED <<cu_blocks, cu, weights, thresholds, verbs_on, verbs_required_fields,
                   summary_rows, gt_ge50, ir_ge50, final_category>>
    /\ UNCHANGED <<mapVars, count_mode, tabVars, countVars>>

NextCall == SetCountMode \/ CallFromApp \/ CallFromPdfBuilder

SpecCall == InitCall /\ [][NextCall]_vars

(* The counting functions on one text: find_and_count_variants, the        *)
(* verb-mode counter, the aggregate counter and compute_field_scores_dynamic *)
(* on a CU whose one field holds the text (or, for the empty text, lacks    *)
(* the field), in any order.                                                *)
InitCount ==
    /\ BuiltDefault
    /\ pc = "idle"
    /\ cu_blocks = <<>>
    /\ in_text \in CountTexts
    /\ \E field \in {"CU DESCRIPTOR", "WORK ACTIVITY"} :
          /\ weights = [f \in {field} |-> default_weights[f]]
          /\ cu \in {[f \in {field} |-> in_text]}
                    \cup (IF in_text = <<>> THEN {EmptyDict} ELSE {})
    /\ thresholds = default_thresholds
    /\ verbs_on \in BOOLEAN
    /\ verbs_required_fields = {"CU DESCRIPTOR", "WORK ACTIVITY"}
    /\ NoResults
    /\ CallIdle
    /\ TabIdle
    /\ called = {}
    /\ out_matches = <<>>
    /\ out_by_base = EmptyDict
    /\ out_units = <<0, 0>>
    /\ out_counts = EmptyDict
    /\ out_variants = {}
    /\ in_items = <<>>
    /\ out_items = <<>>

\* counts_by_base, matches = find_and_count_variants(text, ...)
FindAndCount ==
    /\ "find_and_count_variants" \notin called
    /\ out_matches' = find_and_count_variants(in_text)
    /\ out_by_base' = counts_by_base(in_text)
    /\ called' = called \cup {"find_and_count_variants"}
    /\ UNCHANGED <<scoreVars, mapVars, callVars, tabVars, in_text, out_units, out_counts,
                   out_variants, in_items, out_items>>

\* _count_verb_mode_units_for_field(field, text, ...)
CountVerbMode ==
    /\ "_count_verb_mode_units_for_field" \notin called
    /\ \E field \in DOMAIN weights :
          out_units' = count_verb_mode_units_for_field(field, in_text)
    /\ called' = called \cup {"_count_verb_mode_units_for_field"}
    /\ UNCHANGED <<scoreVars, mapVars, callVars, tabVars, in_text, out_matches, out_by_base, out_counts,
                   out_variants, in_items, out_items>>

\* count_keywords_with_optional_verbs(text, ..., require_verb_before, verbs_regex)
CountAggregate ==
    /\ "count_keywords_with_optional_verbs" \notin called
    /\ out_counts' = count_keywords_with_optional_verbs(in_text, verbs_on)
    /\ called' = called \cup {"count_keywords_with_optional_verbs"}
    /\ UNCHANGED <<scoreVars, mapVars, callVars, tabVars, in_text, out_matches, out_by_base, out_units,
                   out_variants, in_items, out_items>>

\* compute_field_scores_dynamic(cu, weights, thresholds, ...)
ComputeScores ==
    /\ "compute_field_scores_dynamic" \notin called
    /\ Score(cu, weights, thresholds, verbs_on, verbs_required_fields)
    /\ called' = called \cup {"compute_field_scores_dynamic"}
    /\ UNCHANGED <<pc, cu_blocks, cu, weights, thresholds, verbs_on,
                   verbs_required_fields, summary_rows, gt_ge50, ir_ge50,
                   final_category>>
    /\ UNCHANGED <<mapVars, callVars, tabVars, in_text, out_matches, out_by_base, out_units,
                   out_counts, out_variants, in_items, out_items>>

NextCount == FindAndCount \/ CountVerbMode \/ CountAggregate \/ ComputeScores

SpecCount == InitCount /\ [][NextCount]_vars

(* One field text counted with and without the verb gate: the whole-field *)
(* counter, the verb-mode counter, and compute_field_scores_dynamic with   *)
(* the field gated.                                                        *)
InitGate ==
    /\ BuiltDefault
    /\ pc = "idle"
    /\ cu_blocks = <<>>
    /\ in_text \in GateTexts
    /\ \E field \in {"CU DESCRIPTOR", "WORK ACTIVITY"} :
          /\ weights = [f \in {field} |-> default_weights[f]]
          /\ cu = [f \in {field} |-> in_text]
    /\ thresholds = default_thresholds
    /\ verbs_on = TRUE
    /\ verbs_required_fields = {"CU DESCRIPTOR", "WORK ACTIVITY"}
    /\ NoResults
    /\ CallIdle
    /\ TabIdle
    /\ called = {}
    /\ out_matches = <<>>
    /\ out_by_base = EmptyDict
    /\ out_units = <<0, 0>>
    /\ out_counts = EmptyDict
    /\ out_variants = {}
    /\ in_items = <<>>
    /\ out_items = <<>>

NextGate == FindAndCount \/ CountVerbMode \/ ComputeScores

SpecGate == InitGate /\ [][NextGate]_vars

(* An itemized field from its rows to the units of the verb gate: the     *)
(* parser (or tab 5) joins the items of a CU with " - ", and the scoring   *)
(* splits the field again.                                                 *)
InitItems ==
    /\ BuiltDefault
    /\ pc = "rows"
    /\ cu_blocks = <<>>
    /\ cu = EmptyDict
    /\ \E field \in ItemFields : weights = [f \in {field} |-> default_weights[f]]
    /\ thresholds = default_thresholds
    /\ verbs_on = TRUE
    /\ verbs_required_fields = ItemFields
    /\ NoResults
    /\ CallIdle
    /\ TabIdle
    /\ in_text = <<>>
    /\ called = {}
    /\ out_matches = <<>>
    /\ out_by_base = EmptyDict
    /\ out_units = <<0, 0>>
    /\ out_counts = EmptyDict
    /\ out_variants = {}
    /\ in_items \in ItemLists
    /\ out_items = <<>>

\* the str.join of the items with the delimiter
ITEM_DELIMITER == <<" ", "-", " ">>

\* parse_single_html: the cell texts come stripped from get_text(" ", strip=True)
\* and are joined as they are, the empty ones too
ParseSingleHtml ==
    /\ pc = "rows"
    /\ \A j \in 1..Len(in_items) : in_items[j] = Strip(in_items[j])
    /\ cu' = [f \in DOMAIN weights |-> Join(in_items, ITEM_DELIMITER)]
    /\ pc' = "joined"
    /\ UNCHANGED <<cu_blocks, weights, thresholds, verbs_on, verbs_required_fields,
                   units, gt_scores, ir_scores, summary_rows, gt_ge50, ir_ge50,
                   final_category>>
    /\ UNCHANGED <<mapVars, auxVars>>

\* tab 5: the lines that are not blank are joined as they were typed
AssembleManualCU ==
    /\ pc = "rows"
    /\ LET NotBlank(w) == Strip(w) # <<>>
       IN  cu' = [f \in DOMAIN weights |->
                    Join(SelectSeq(in_items, NotBlank), ITEM_DELIMITER)]
    /\ pc' = "typed"
    /\ UNCHANGED <<cu_blocks, weights, thresholds, verbs_on, verbs_required_fields,
                   units, gt_scores, ir_scores, summary_rows, gt_ge50, ir_ge50,
                   final_category>>
    /\ UNCHANGED <<mapVars, auxVars>>

\* compute_field_scores_dynamic on the CU; out_items records the items the
\* loop of line 109 went over
GateItems ==
    /\ pc \in {"joined", "typed"}
    /\ Score(cu, weights, thresholds, verbs_on, verbs_required_fields)
    /\ \E f \in DOMAIN weights : out_items' = iter_field_items(f, CuText(cu, f))
    /\ pc' = IF pc = "joined" THEN "gated_parsed" ELSE "gated_typed"
    /\ UNCHANGED <<cu_blocks, cu, weights, thresholds, verbs_on, verbs_required_fields,
                   summary_rows, gt_ge50, ir_ge50, final_category>>
    /\ UNCHANGED <<mapVars, callVars, tabVars, in_text, called, out_matches,
                   out_by_base, out_units, out_counts, out_variants, in_items>>

NextItems == ParseSingleHtml \/ AssembleManualCU \/ GateItems

SpecItems == InitItems /\ [][NextItems]_vars

(* The variant expander on one phrase. *)
InitExpand ==
    /\ BuiltDefault
    /\ pc = "idle"
    /\ cu_blocks = <<>>
    /\ cu = EmptyDict
    /\ weights = default_weights
    /\ thresholds = default_thresholds
    /\ verbs_on = FALSE
    /\ verbs_required_fields = {}
    /\ NoResults
    /\ CallIdle
    /\ TabIdle
    /\ in_text \in Phrases
    /\ called = {}
    /\ out_matches = <<>>
    /\ out_by_base = EmptyDict
    /\ out_units = <<0, 0>>
    /\ out_counts = EmptyDict
    /\ out_variants = {}
    /\ in_items = <<>>
    /\ out_items = <<>>

\* expand_phrase_variants(phrase)
ExpandPhrase ==
    /\ "expand_phrase_variants" \notin called
    /\ out_variants' = expand_phrase_variants(in_text)
    /\ called' = called \cup {"expand_phrase_variants"}
    /\ UNCHANGED <<scoreVars, mapVars, callVars, tabVars, in_text, out_matches,
                   out_by_base, out_units, out_counts, in_items, out_items>>

NextExpand == ExpandPhrase

SpecExpand == InitExpand /\ [][NextExpand]_vars

(* A keywords tab and the scoring that follows.  Every action is one run   *)
(* of the script: app.py builds the matcher at line 46, then the tab (or    *)
(* tab 1) does its work.                                                    *)
InitTab ==
    /\ BuiltDefault
    /\ pc = "tab"
    /\ cu_blocks = <<>>
    /\ cu = EmptyDict
    /\ weights = default_weights
    /\ thresholds = default_thresholds
    /\ verbs_on = FALSE
    /\ verbs_required_fields = {}
    /\ NoResults
    /\ CallIdle
    /\ CountIdle
    /\ state_prefix \in {"gt", "ir"}
    /\ kw_file \in TabFiles
    /\ custom_dict = <<>>
    /\ boot_flag = FALSE
    /\ added_labels = <<>>
    /\ tab_error = ""

\* app.py:46 in a run of the script: build_regex_and_maps() takes no argument
\* and reads GREEN_BASE, IR_BASE and the seeds of core/keywords.py, which no
\* run changes; in the process that made the first build it returns the same
\* matcher and lookup again
RunBuild == UNCHANGED mapVars

\* lines 57-63: the session dictionary after the bootstrap from the file
Bootstrapped == IF boot_flag THEN custom_dict ELSE file_load(kw_file)

\* lines 85-91 on dictionary d: the labels are listed, or line 85 raises
ListLabels(d) ==
    IF LabelMissing(d)
    THEN /\ tab_error' = "KeyError"
         /\ added_labels' = <<>>
    ELSE /\ tab_error' = ""
         /\ added_labels' = LabelsOf(d)

\* a run in which no button is pressed
RenderTab ==
    /\ RunBuild
    /\ custom_dict' = Bootstrapped
    /\ boot_flag' = TRUE
    /\ ListLabels(custom_dict')
    /\ pc' = "tab"
    /\ UNCHANGED <<cu_blocks, cu, weights, thresholds, verbs_on, verbs_required_fields,
                   units, gt_scores, ir_scores, summary_rows, gt_ge50, ir_ge50,
                   final_category>>
    /\ UNCHANGED <<callVars, countVars, state_prefix, kw_file>>

\* "Reload file" (lines 69-72), and the run st.rerun() starts
ReloadFile ==
    /\ RunBuild
    /\ custom_dict' = file_load(kw_file)
    /\ boot_flag' = TRUE
    /\ ListLabels(custom_dict')
    /\ pc' = "tab"
    /\ UNCHANGED <<cu_blocks, cu, weights, thresholds, verbs_on, verbs_required_fields,
                   units, gt_scores, ir_scores, summary_rows, gt_ge50, ir_ge50,
                   final_category>>
    /\ UNCHANGED <<callVars, countVars, state_prefix, kw_file>>

\* "Clear saved file" (lines 74-78), and the run st.rerun() starts
ClearFile ==
    /\ RunBuild
    /\ kw_file' = NoFile
    /\ custom_dict' = <<>>
    /\ boot_flag' = TRUE
    /\ ListLabels(custom_dict')
    /\ pc' = "tab"
    /\ UNCHANGED <<cu_blocks, cu, weights, thresholds, verbs_on, verbs_required_fields,
                   units, gt_scores, ir_scores, summary_rows, gt_ge50, ir_ge50,
                   final_category>>
    /\ UNCHANGED <<callVars, countVars, state_prefix>>

\* the Add form is submitted (lines 101-122): the run lists the labels first
\* (line 85); a term that is new is stored and saved, and st.rerun() starts the
\* run that lists it.  file_save may fail: _persist shows the error and goes on.
AddKeyword ==
    /\ RunBuild
    /\ boot_flag' = TRUE
    /\ pc' = "tab"
    /\ \E new_base \in NewBases : \E new_vars_txt \in NewVariantTexts :
       \E saved \in BOOLEAN :
          LET d == Bootstrapped
              base_label == Strip(new_base)
              base_key == norm(base_label)
              default_norms == {norm(x) : x \in default_bases(state_prefix)}
              entry == [label |-> base_label, variants |-> split_variants(new_vars_txt)]
              accepted == /\ ~LabelMissing(d)
                          /\ Len(d) < MaxCustom
                          /\ base_label # <<>>
                          /\ ~DictHas(d, base_key)
                          /\ base_key \notin default_norms
          IN  IF accepted
              THEN /\ custom_dict' = DictSet(d, base_key, entry)
                   /\ kw_file' = IF saved THEN SavedFile(custom_dict') ELSE kw_file
                   /\ ListLabels(custom_dict')
              ELSE /\ custom_dict' = d
                   /\ kw_file' = kw_file
                   /\ ListLabels(d)
    /\ UNCHANGED <<cu_blocks, cu, weights, thresholds, verbs_on, verbs_required_fields,
                   units, gt_scores, ir_scores, summary_rows, gt_ge50, ir_ge50,
                   final_category>>
    /\ UNCHANGED <<callVars, countVars, state_prefix>>

\* the Edit form is saved (lines 124-179) for the entry picked by its label
EditKeyword ==
    /\ RunBuild
    /\ boot_flag' = TRUE
    /\ pc' = "tab"
    /\ LET d == Bootstrapped
       IN  IF LabelMissing(d) \/ d = <<>>
           THEN /\ custom_dict' = d
                /\ kw_file' = kw_file
                /\ ListLabels(d)
           ELSE \E j \in 1..Len(d) : \E label_input \in EditLabels :
                \E new_vars_txt \in NewVariantTexts : \E saved \in BOOLEAN :
                   LET sel_label == d[j][2].label
                       sel_key == key_of_label(d, sel_label)
                       new_label == Strip(label_input)
                       new_key == edit_new_key(new_label, sel_key)
                       default_norms == {norm(x) : x \in default_bases(state_prefix)}
                       entry == [label |-> new_label,
                                 variants |-> split_variants(new_vars_txt)]
                       refused == \/ new_label = <<>>
                                  \/ /\ new_key # sel_key
                                     /\ DictHas(d, new_key) \/ new_key \in default_norms
                   IN  IF refused
                       THEN /\ custom_dict' = d
                            /\ kw_file' = kw_file
                            /\ ListLabels(d)
                       ELSE /\ custom_dict' =
                                  IF new_key # sel_key
                                  THEN DictPop(DictSet(d, new_key, entry), sel_key)
                                  ELSE DictSet(d, sel_key, entry)
                            /\ kw_file' = persist(saved, custom_dict', kw_file)
                            /\ ListLabels(custom_dict')
    /\ UNCHANGED <<cu_blocks, cu, weights, thresholds, verbs_on, verbs_required_fields,
                   units, gt_scores, ir_scores, summary_rows, gt_ge50, ir_ge50,
                   final_category>>
    /\ UNCHANGED <<callVars, countVars, state_prefix>>

\* "Delete base keyword" is submitted (lines 193-208) for the entry picked by
\* its label, with or without the confirmation
DeleteKeyword ==
    /\ RunBuild
    /\ boot_flag' = TRUE
    /\ pc' = "tab"
    /\ LET d == Bootstrapped
       IN  IF LabelMissing(d) \/ d = <<>>
           THEN /\ custom_dict' = d
                /\ kw_file' = kw_file
                /\ ListLabels(d)
           ELSE \E j \in 1..Len(d) : \E confirm \in BOOLEAN : \E saved \in BOOLEAN :
                   LET del_label == d[j][2].label
                       del_key == key_of_label(d, del_label)
                   IN  IF ~confirm
                       THEN /\ custom_dict' = d
                            /\ kw_file' = kw_file
                            /\ ListLabels(d)
                       ELSE /\ custom_dict' = DictPop(d, del_key)
                            /\ kw_file' = persist(saved, custom_dict', kw_file)
                            /\ ListLabels(custom_dict')
    /\ UNCHANGED <<cu_blocks, cu, weights, thresholds, verbs_on, verbs_required_fields,
                   units, gt_scores, ir_scores, summary_rows, gt_ge50, ir_ge50,
                   final_category>>
    /\ UNCHANGED <<callVars, countVars, state_prefix>>

\* "Delete selected variants" is submitted (lines 209-236): the selected
\* variants of the entry picked by its label are removed
DeleteVariants ==
    /\ RunBuild
    /\ boot_flag' = TRUE
    /\ pc' = "tab"
    /\ LET d == Bootstrapped
       IN  IF LabelMissing(d) \/ d = <<>>
           THEN /\ custom_dict' = d
                /\ kw_file' = kw_file
                /\ ListLabels(d)
           ELSE \E j \in 1..Len(d) : \E saved \in BOOLEAN :
                   LET del_label == d[j][2].label
                       del_key == key_of_label(d, del_label)
                       current == DictGet(d, del_key).variants
                   IN  \E del_selected \in SUBSET {current[k] : k \in 1..Len(current)} :
                          IF del_selected = {}
                          THEN /\ custom_dict' = d
                               /\ kw_file' = kw_file
                               /\ ListLabels(d)
                          ELSE LET Kept(v) == v \notin del_selected
                               IN  /\ custom_dict' =
                                         DictSet(d, del_key,
                                                 [label |-> DictGet(d, del_key).label,
                                                  variants |-> SelectSeq(current, Kept)])
                                   /\ kw_file' = persist(saved, custom_dict', kw_file)
                                   /\ ListLabels(custom_dict')
    /\ UNCHANGED <<cu_blocks, cu, weights, thresholds, verbs_on, verbs_required_fields,
                   units, gt_scores, ir_scores, summary_rows, gt_ge50, ir_ge50,
                   final_category>>
    /\ UNCHANGED <<callVars, countVars, state_prefix>>

\* a run that scores a CU whose four fields hold one text
ScoreAfterTab ==
    /\ RunBuild
    /\ \E text \in TabTexts : cu' = [f \in FieldSet |-> text]
    /\ Score(cu', weights, thresholds, verbs_on, verbs_required_fields)
    /\ pc' = "scored"
    /\ UNCHANGED <<cu_blocks, weights, thresholds, verbs_on, verbs_required_fields,
                   summary_rows, gt_ge50, ir_ge50, final_category>>
    /\ UNCHANGED <<callVars, countVars, tabVars>>

NextTab == RenderTab \/ ReloadFile \/ ClearFile \/ AddKeyword \/ ScoreAfterTab

SpecTab == InitTab /\ [][NextTab]_vars

(* A keywords tab of a user who has added nothing yet: Add, Edit, Delete,  *)
(* Reload and Clear in any order.                                          *)
InitEdit ==
    /\ BuiltDefault
    /\ pc = "tab"
    /\ cu_blocks = <<>>
    /\ cu = EmptyDict
    /\ weights = default_weights
    /\ thresholds = default_thresholds
    /\ verbs_on = FALSE
    /\ verbs_required_fields = {}
    /\ NoResults
    /\ CallIdle
    /\ CountIdle
    /\ state_prefix \in {"gt", "ir"}
    /\ kw_file \in EmptyTabFiles
    /\ custom_dict = <<>>
    /\ boot_flag = FALSE
    /\ added_labels = <<>>
    /\ tab_error = ""

NextEdit ==
    \/ RenderTab
    \/ ReloadFile
    \/ ClearFile
    \/ AddKeyword
    \/ EditKeyword
    \/ DeleteKeyword
    \/ DeleteVariants

SpecEdit == InitEdit /\ [][NextEdit]_vars

(***************************************************************************)
(* Build claims, checked under SpecBuild.                                  *)
(***************************************************************************)
\* the terms of a base-term list that produce the surface, as the list's positions
RefProducers(base_list, seed_dict, surface) ==
    {j \in 1..Len(base_list) :
        surface \in VariantsOfBase(Lower(Strip(base_list[j])), seed_dict)}

\* the term that is processed last, in the order of the list, among those
\* that produce the surface; an IR4 term goes before a GreenTech term
RefOwner(surface) ==
    LET ir == RefProducers(IR_BASE, VARIANTS_IR_SEED, surface)
        green == RefProducers(GREEN_BASE, VARIANTS_GREEN_SEED, surface)
        Latest(S) == CHOOSE j \in S : \A k \in S : k <= j
    IN  IF ir # {} THEN Lower(Strip(IR_BASE[Latest(ir)]))
        ELSE Lower(Strip(GREEN_BASE[Latest(green)]))

\* C12: a surface that several base terms produce is owned by the term that
\* comes last in the order of the base-term list (by the IR4 term when a
\* GreenTech and an IR4 term produce it), and every build from the same lists
\* gives the same owner.
C12_LaterInListOwns ==
    /\ pc # "start" =>
          \A j \in 1..Len(VARIANT_TO_BASE) :
              VARIANT_TO_BASE[j][2] = RefOwner(VARIANT_TO_BASE[j][1])
    /\ \A j \in 1..Len(builds) : \A k \in 1..Len(builds) :
          \A item \in builds[j] : \A other \in builds[k] :
              item[1] = other[1] => item[2] = other[2]

\* C13: with both base-term lists empty the build succeeds, its matcher has no
\* match in any text, and every field of a CU scored with it scores 0 for both
\* taxonomies.
C13_EmptyVocabulary ==
    (GREEN_BASE = <<>> /\ IR_BASE = <<>> /\ pc \in {"built", "scored"}) =>
        /\ VARIANT_TO_BASE = <<>>
        /\ \A text \in BuildTexts : variants_regex_finditer(Lower(text)) = <<>>
        /\ pc = "scored" =>
              /\ DOMAIN gt_scores = FieldSet
              /\ DOMAIN ir_scores = FieldSet
              /\ \A f \in FieldSet : gt_scores[f] = 0 /\ ir_scores[f] = 0

\* the empty vocabulary was built and a text that holds words was scored
C13_Witness ==
    /\ GREEN_BASE = <<>>
    /\ IR_BASE = <<>>
    /\ pc = "scored"
    /\ Len(builds) = 1
    /\ cu["WORK ACTIVITY"] = <<"g", " ", "-", " ", "g", "s">>
    /\ gt_scores["WORK ACTIVITY"] = 0

\* C17: two builds from the same base-term lists and seeds give the same
\* surface -> base lookup.
C17_BuildIdempotent ==
    \A j \in 1..Len(builds) : \A k \in 1..Len(builds) : builds[j] = builds[k]

(***************************************************************************)
(* The counting mode, checked under SpecCall.                              *)
(***************************************************************************)
\* the qualifying keyword hits of a scored field, as <<unit, hit>> positions:
\* every hit of an ungated field, the hits of the qualifying units of a gated one
RefHitUnits(f) ==
    IF Gated(f) THEN UnitsOf(f)
    ELSE IF CuText(cu, f) = <<>> THEN <<>> ELSE <<CuText(cu, f)>>

RefHitBase(f, h) ==
    LET ms == variants_regex_finditer(Lower(RefHitUnits(f)[h[1]]))
    IN  DictGet(variant_to_base, Lower(ms[h[2]].group))

RefQualifyingHits(f) ==
    LET items == RefHitUnits(f)
        HitsOf(u) == variants_regex_finditer(Lower(items[u]))
    IN  UNION {{<<u, k>> : k \in 1..Len(HitsOf(u))} :
                 u \in {x \in 1..Len(items) : Gated(f) => RefQualifies(items[x])}}

\* the count the mode asks for: distinct base terms, or occurrences
RefModeCount(f, bases) ==
    LET hits == {h \in RefQualifyingHits(f) : RefHitBase(f, h) \in bases}
    IN  IF count_mode = "different"
        THEN Cardinality({RefHitBase(f, h) : h \in hits})
        ELSE Cardinality(hits)

\* C11: a call of the scoring entry point by one of its callers is accepted,
\* and the count of every field is what the session's counting mode asks for:
\* the number of distinct qualifying base terms in mode "different", the
\* number of qualifying occurrences in mode "repeated".
C11_CountingMode ==
    pc = "called" =>
        /\ call_error = ""
        /\ call_error = "" =>
              \A f \in FieldSet :
                  units[f] = <<RefModeCount(f, GREEN_BASE_SET_S),
                               RefModeCount(f, IR_BASE_SET_S)>>

\* the part of C11 that the code keeps: an accepted call counts occurrences
C11_AcceptedCallCountsRepeated ==
    (pc = "called" /\ call_error = "" /\ count_mode = "repeated") =>
        \A f \in FieldSet :
            units[f] = <<RefModeCount(f, GREEN_BASE_SET_S),
                         RefModeCount(f, IR_BASE_SET_S)>>

(***************************************************************************)
(* The counting functions, checked under SpecCount.                        *)
(***************************************************************************)
AllCounters ==
    {"find_and_count_variants", "_count_verb_mode_units_for_field",
     "count_keywords_with_optional_verbs", "compute_field_scores_dynamic"}

\* C14: on an empty text, on None and on a CU that lacks the field, each of
\* find_and_count_variants, the verb-mode counter, the aggregate counter and
\* compute_field_scores_dynamic returns its empty result (no match, no unit,
\* no count), and the field scores 0 for both taxonomies.
C14_EmptyText ==
    in_text \in {<<>>, NoValue} =>
        /\ "find_and_count_variants" \in called => out_matches = <<>>
        /\ "_count_verb_mode_units_for_field" \in called => out_units = <<0, 0>>
        /\ "count_keywords_with_optional_verbs" \in called => out_counts = EmptyDict
        /\ "compute_field_scores_dynamic" \in called =>
              \A f \in DOMAIN weights :
                  /\ units[f] = <<0, 0>>
                  /\ gt_scores[f] = 0
                  /\ ir_scores[f] = 0

\* the four functions were applied to None
C14_Witness ==
    /\ in_text = NoValue
    /\ called = AllCounters
    /\ \E f \in DOMAIN weights :
          /\ cu[f] = NoValue
          /\ gt_scores[f] = 0
          /\ ir_scores[f] = 0
    /\ out_counts = EmptyDict

\* the four functions were applied for a CU that lacks the field
C14_WitnessAbsent ==
    /\ in_text = <<>>
    /\ cu = EmptyDict
    /\ called = AllCounters
    /\ \A f \in DOMAIN weights : gt_scores[f] = 0 /\ ir_scores[f] = 0

\* C15: in the text the matcher is applied to, every reported span is neither
\* preceded nor followed by a word character, and the span holds the surface:
\* a surface is never matched inside a longer word.
C15_WordBoundary ==
    "find_and_count_variants" \in called =>
        LET s == Lower(in_text)
        IN  \A j \in 1..Len(out_matches) :
                LET m == out_matches[j]
                IN  /\ 0 <= m.start /\ m.start < m.end /\ m.end <= Len(s)
                    /\ m.start = 0 \/ s[m.start] \notin WordChars
                    /\ m.end = Len(s) \/ s[m.end + 1] \notin WordChars
                    /\ SubSeq(s, m.start + 1, m.end) = m.surface
                    /\ DictHas(VARIANT_TO_BASE, m.surface)

\* "xg g": the keyword inside the word xg is not reported, the one standing alone is
C15_Witness ==
    /\ in_text = <<"x", "g", " ", "g">>
    /\ "find_and_count_variants" \in called
    /\ Len(out_matches) = 1
    /\ out_matches[1].start = 3
    /\ out_matches[1].end = 4

\* text[start:end] of Python
PySlice(text, start, end) ==
    SubSeq(text, start + 1, IF end < Len(text) THEN end ELSE Len(text))

\* C16: every span (start, end, base, surface) that find_and_count_variants
\* reports is valid against the original text: the original text sliced at
\* [start:end], lower-cased, is the surface.
C16_OffsetsValid ==
    "find_and_count_variants" \in called =>
        \A j \in 1..Len(out_matches) :
            Lower(PySlice(in_text, out_matches[j].start, out_matches[j].end))
                = out_matches[j].surface

\* the part of C16 that the code keeps: offsets are valid for a text whose
\* lower case has as many characters as the text
C16_OffsetsValidSameLength ==
    ("find_and_count_variants" \in called /\ Len(Lower(in_text)) = Len(in_text)) =>
        \A j \in 1..Len(out_matches) :
            Lower(PySlice(in_text, out_matches[j].start, out_matches[j].end))
                = out_matches[j].surface

\* the sentences of a text: split after . ! ? : ; followed by blanks and at
\* newlines, stripped, the empty ones dropped
RefSentenceSplitLen(s, i) ==
    IF i > 1 /\ s[i - 1] \in SentenceEnd /\ s[i] \in SpaceChars THEN SpaceRun(s, i)
    ELSE IF s[i] = "\n" THEN NewlineRun(s, i)
    ELSE 0

RECURSIVE RefSentencesFrom(_, _, _)
RefSentencesFrom(s, from, i) ==
    IF i > Len(s)
    THEN (IF Strip(SubSeq(s, from, Len(s))) = <<>> THEN <<>>
          ELSE <<Strip(SubSeq(s, from, Len(s)))>>)
    ELSE LET n == RefSentenceSplitLen(s, i)
         IN  IF n = 0 THEN RefSentencesFrom(s, from, i + 1)
             ELSE (IF Strip(SubSeq(s, from, i - 1)) = <<>> THEN <<>>
                   ELSE <<Strip(SubSeq(s, from, i - 1))>>)
                  \o RefSentencesFrom(s, i + n, i + n)

RefSentences(text) == RefSentencesFrom(text, 1, 1)

\* the keyword occurrences, with base in bases, of the sentences that qualify
RECURSIVE RefSentenceUnits(_, _)
RefSentenceUnits(sentences, bases) ==
    IF sentences = <<>> THEN 0
    ELSE (IF RefQualifies(Head(sentences))
          THEN RefOccurrences(Head(sentences), bases) ELSE 0)
         + RefSentenceUnits(Tail(sentences), bases)

\* C20: a gated Title or Descriptor is split into sentences (at . ! ? : ; and
\* at newlines) and each sentence is gated on its own: the field counts the
\* keyword hits of the sentences that have a verb starting before one of
\* their keywords.
C20_SentenceUnits ==
    "compute_field_scores_dynamic" \in called =>
        \A f \in DOMAIN weights :
            (Gated(f) /\ f \in {"CU TITLE", "CU DESCRIPTOR"}) =>
                units[f] = <<RefSentenceUnits(RefSentences(CuText(cu, f)), GREEN_BASE_SET_S),
                             RefSentenceUnits(RefSentences(CuText(cu, f)), IR_BASE_SET_S)>>

\* what the code does for C20's fields: the whole Title or Descriptor is one unit
C20_WholeFieldUnit ==
    "compute_field_scores_dynamic" \in called =>
        \A f \in DOMAIN weights :
            (Gated(f) /\ f \in {"CU TITLE", "CU DESCRIPTOR"}) =>
                units[f] = (IF CuText(cu, f) # <<>> /\ RefQualifies(Strip(CuText(cu, f)))
                            THEN <<RefOccurrences(Strip(CuText(cu, f)), GREEN_BASE_SET_S),
                                   RefOccurrences(Strip(CuText(cu, f)), IR_BASE_SET_S)>>
                            ELSE <<0, 0>>)

(***************************************************************************)
(* The custom vocabulary, checked under SpecTab.                           *)
(***************************************************************************)
\* the column of the tab's taxonomy in a field's <<gt_units, ir_units>>
TabColumn == IF state_prefix = "gt" THEN 1 ELSE 2

\* C18: a custom base term that was added in the keywords tab is part of the
\* vocabulary of the next build: a field whose text is that term counts it
\* for the tab's taxonomy.
C18_CustomTermsCounted ==
    pc = "scored" =>
        \A j \in 1..Len(custom_dict) :
            "label" \in DOMAIN custom_dict[j][2] =>
                \A f \in DOMAIN units :
                    norm(CuText(cu, f)) = custom_dict[j][1] => units[f][TabColumn] >= 1

\* the labels of the entries that have one, in the order of the dictionary
RECURSIVE RefLabelled(_)
RefLabelled(d) ==
    IF d = <<>> THEN <<>>
    ELSE (IF "label" \in DOMAIN Head(d)[2] THEN <<Head(d)[2].label>> ELSE <<>>)
         \o RefLabelled(Tail(d))

\* C19: a persisted entry without a label is skipped on its own: once the tab
\* has loaded the dictionary, no error is raised and the entries that have a
\* label are listed.
C19_UnlabelledSkipped ==
    boot_flag =>
        /\ tab_error = ""
        /\ added_labels = RefLabelled(custom_dict)

\* the part of C19 that the code keeps: loading never fails, and a dictionary
\* whose entries all have a label is listed
C19_LabelledListed ==
    (boot_flag /\ ~LabelMissing(custom_dict)) =>
        /\ tab_error = ""
        /\ added_labels = RefLabelled(custom_dict)

\* the keyword matches of the units of a field, as <<unit, match>> positions
RefUnitMatches(items) ==
    UNION {{<<u, k>> : k \in 1..Len(variants_regex_finditer(Lower(items[u])))} :
             u \in 1..Len(items)}

\* the base term of the match at position h
RefMatchBase(items, h) ==
    DictGet(variant_to_base,
            Lower(variants_regex_finditer(Lower(items[h[1]]))[h[2]].group))

\* the keyword matches, with base in bases, that lie in the qualifying units
RefEligible(items, bases) ==
    Cardinality({h \in RefUnitMatches(items) :
                    /\ RefQualifies(items[h[1]])
                    /\ RefMatchBase(items, h) \in bases})

\* C21: the verb-mode count of a field, per taxonomy, is the number of keyword
\* matches that lie in qualifying units: every keyword match of a qualifying
\* unit counts once, also one that starts before every verb of the unit, and
\* a unit that does not qualify adds nothing, whatever the other units hold.
C21_EligibleCount ==
    "_count_verb_mode_units_for_field" \in called =>
        \A f \in DOMAIN weights :
            out_units = <<RefEligible(iter_field_items(f, in_text), GREEN_BASE_SET_S),
                          RefEligible(iter_field_items(f, in_text), IR_BASE_SET_S)>>

\* "g v g - g": both keywords of the first item count, the first of them
\* starts before the verb; the second item has no verb and adds nothing
C21_Witness ==
    /\ "_count_verb_mode_units_for_field" \in called
    /\ DOMAIN weights = {"WORK ACTIVITY"}
    /\ in_text = <<"g", " ", "v", " ", "g", " ", "-", " ", "g">>
    /\ Len(iter_field_items("WORK ACTIVITY", in_text)) = 2
    /\ out_units = <<2, 0>>

\* the sum of the counts of a Counter over the bases of S
RECURSIVE RefSumCounts(_, _)
RefSumCounts(c, S) ==
    IF S = {} THEN 0
    ELSE LET b == CHOOSE x \in S : TRUE
         IN  c[b] + RefSumCounts(c, S \ {b})

\* C22: find_and_count_variants returns its spans in strictly increasing
\* start order and no two of them overlap; the per-base counter counts every
\* occurrence: its counts sum to the number of spans, and the count of a
\* base is the number of spans that carry the base.
C22_SpansOrderedAndCounted ==
    "find_and_count_variants" \in called =>
        /\ \A j \in 1..Len(out_matches) : \A k \in 1..Len(out_matches) :
              j < k => /\ out_matches[j].start < out_matches[k].start
                       /\ out_matches[j].end <= out_matches[k].start
        /\ RefSumCounts(out_by_base, DOMAIN out_by_base) = Len(out_matches)
        /\ DOMAIN out_by_base = {out_matches[j].base : j \in 1..Len(out_matches)}
        /\ \A b \in DOMAIN out_by_base :
              out_by_base[b]
                = Cardinality({j \in 1..Len(out_matches) : out_matches[j].base = b})

\* "v g. g": two spans of the base g, counted twice
C22_Witness ==
    /\ "find_and_count_variants" \in called
    /\ in_text = <<"v", " ", "g", ".", " ", "g">>
    /\ Len(out_matches) = 2
    /\ out_matches[1].base = <<"g">>
    /\ out_matches[2].base = <<"g">>
    /\ out_by_base[<<"g">>] = 2

\* the registered surface x stands in the lower-cased text s at 1-based
\* position i, with no word character before it and none after it
RefSurfaceAt(s, i, x) ==
    /\ i + Len(x) - 1 <= Len(s)
    /\ SubSeq(s, i, i + Len(x) - 1) = x
    /\ (i = 1 \/ s[i - 1] \notin WordChars)
    /\ (i + Len(x) > Len(s) \/ s[i + Len(x)] \notin WordChars)

\* C23: at a position of the text where registered surfaces match with valid
\* word boundaries, and that no earlier reported span covers, the matcher
\* reports the longest of them: a shorter surface that is a prefix of a
\* longer matching surface is never the one reported there.
C23_LongestMatch ==
    "find_and_count_variants" \in called =>
        LET s == Lower(IF in_text = NoValue THEN <<>> ELSE in_text)
            surfaces == {VARIANT_TO_BASE[j][1] : j \in 1..Len(VARIANT_TO_BASE)}
        IN  \A i \in 1..Len(s) : \A x \in surfaces :
                RefSurfaceAt(s, i, x) =>
                    \E j \in 1..Len(out_matches) :
                        \/ /\ out_matches[j].start < i - 1
                           /\ i - 1 < out_matches[j].end
                        \/ /\ out_matches[j].start = i - 1
                           /\ Len(out_matches[j].surface) >= Len(x)
                           /\ RefSurfaceAt(s, i, out_matches[j].surface)

\* "g i g": the surfaces "g" and "g i" both match at the start; the span
\* reported there is "g i", and the "g" that follows is a span of its own
C23_Witness ==
    /\ "find_and_count_variants" \in called
    /\ in_text = <<"g", " ", "i", " ", "g">>
    /\ RefSurfaceAt(in_text, 1, <<"g">>)
    /\ RefSurfaceAt(in_text, 1, <<"g", " ", "i">>)
    /\ Len(out_matches) = 2
    /\ out_matches[1].surface = <<"g", " ", "i">>
    /\ out_matches[2].start = 4

\* C24: a counted match whose base term belongs to both taxonomies adds one
\* to the GreenTech count and one to the IR4 count of the field, in gated and
\* in ungated counting alike; a match whose base belongs to one taxonomy
\* adds to that taxonomy only.
C24_BothTaxonomies ==
    "compute_field_scores_dynamic" \in called =>
        \A f \in DOMAIN weights :
            LET hits == RefQualifyingHits(f)
                both == {h \in hits : /\ RefHitBase(f, h) \in GREEN_BASE_SET_S
                                       /\ RefHitBase(f, h) \in IR_BASE_SET_S}
                green_only == {h \in hits : /\ RefHitBase(f, h) \in GREEN_BASE_SET_S
                                             /\ RefHitBase(f, h) \notin IR_BASE_SET_S}
                ir_only == {h \in hits : /\ RefHitBase(f, h) \notin GREEN_BASE_SET_S
                                          /\ RefHitBase(f, h) \in IR_BASE_SET_S}
            IN  /\ units[f][1] = Cardinality(both) + Cardinality(green_only)
                /\ units[f][2] = Cardinality(both) + Cardinality(ir_only)

\* "v gi - gi i" as a gated Work Activity: the item "v gi" qualifies and its
\* match of gi, a term of both taxonomies, counts once for each; the item
\* "gi i" has no verb before a keyword
C24_Witness ==
    /\ "compute_field_scores_dynamic" \in called
    /\ verbs_on
    /\ DOMAIN weights = {"WORK ACTIVITY"}
    /\ in_text = <<"v", " ", "g", "i", " ", "-", " ", "g", "i", " ", "i">>
    /\ <<"g", "i">> \in GREEN_BASE_SET_S \cap IR_BASE_SET_S
    /\ units["WORK ACTIVITY"] = <<1, 1>>

\* the same text ungated: gi counts twice for each taxonomy, i for IR4 only
C24_WitnessUngated ==
    /\ "compute_field_scores_dynamic" \in called
    /\ ~verbs_on
    /\ in_text = <<"v", " ", "g", "i", " ", "-", " ", "g", "i", " ", "i">>
    /\ \E f \in DOMAIN weights : units[f] = <<2, 3>>

(***************************************************************************)
(* The variant expander, checked under SpecExpand.                         *)
(***************************************************************************)
\* the inflections of a token: +s, +es, +ed, +ing; for a token ending in y
\* stem+ies, stem+ied, stem+ying in place of +es, +ed, +ing; for a token
\* ending in al or ic also +ly
RefInflections(t) ==
    LET n == Len(t)
        stem == SubSeq(t, 1, n - 1)
        EndsIn(a, b) == n >= 2 /\ t[n - 1] = a /\ t[n] = b
    IN  {t \o <<"s">>}
        \cup (IF t[n] = "y"
              THEN {stem \o <<"i", "e", "s">>, stem \o <<"i", "e", "d">>,
                    stem \o <<"y", "i", "n", "g">>}
              ELSE {t \o <<"e", "s">>, t \o <<"e", "d">>, t \o <<"i", "n", "g">>})
        \cup (IF EndsIn("a", "l") \/ EndsIn("i", "c") THEN {t \o <<"l", "y">>} ELSE {})

\* the reference expander
RefExpand(phrase) ==
    LET toks == tokenize(phrase)
        n == Len(toks)
        forms == {toks[n]} \cup RefInflections(toks[n])
        front == SubSeq(toks, 1, n - 1)
    IN  IF n = 0 THEN {}
        ELSE IF n = 1 THEN forms
        ELSE {Lower(phrase)}
             \cup {Join(front, <<" ">>) \o <<" ">> \o f : f \in forms}
             \cup {Join(front, <<"-">>) \o <<"-">> \o f : f \in forms}

\* C25: expand_phrase_variants gives what the reference expander gives: the
\* empty set for a phrase without token; the token and its inflections for a
\* single token; for several tokens the lower-cased phrase and, for each form
\* of the last token, the other tokens joined by blanks and by hyphens with
\* the form appended.  Nothing else is produced and the tokens before the
\* last are unchanged.
C25_ExpanderIsReference ==
    "expand_phrase_variants" \in called =>
        /\ out_variants = RefExpand(in_text)
        /\ LET toks == tokenize(in_text)
           IN  \A v \in out_variants :
                   \/ v = Lower(in_text)
                   \/ /\ Len(tokenize(v)) = Len(toks)
                      /\ \A j \in 1..(Len(toks) - 1) : tokenize(v)[j] = toks[j]

\* "G-y": the last token ends in y, so "g-ies" and "g ies" are produced and
\* "g-yes" is not
C25_Witness ==
    /\ "expand_phrase_variants" \in called
    /\ in_text = <<"G", "-", "y">>
    /\ <<"g", "-", "i", "e", "s">> \in out_variants
    /\ <<"g", " ", "i", "e", "s">> \in out_variants
    /\ <<"g", "-", "y">> \in out_variants
    /\ <<"g", "-", "y", "e", "s">> \notin out_variants
    /\ Cardinality(out_variants) = 10

(***************************************************************************)
(* Base terms in the lookup, checked under SpecBuild.                      *)
(***************************************************************************)
\* C26: after build_regex_and_maps every base term of either list resolves to
\* itself: the surface -> base lookup maps the string of the base term to
\* the base term, also when the term is an inflection or a seed of another
\* base term.
C26_BaseResolvesToItself ==
    pc # "start" =>
        \A b \in GREEN_BASE_SET_S \cup IR_BASE_SET_S :
            DictGet(VARIANT_TO_BASE, b) = b

RefJoinedItems ==
    LET NotBlank(w) == Strip(w) # <<>>
        joined == IF pc = "gated_parsed" THEN in_items ELSE SelectSeq(in_items, NotBlank)
    IN  [j \in 1..Len(joined) |-> Strip(joined[j])]

\* C28: for a Work Activity or Performance Criteria field built by joining
\* non-empty items with " - ", the units the verb gate iterates over are the
\* original items, in order and in number: no item is split in two and no
\* two items are merged.
C28_DelimiterRoundTrip ==
    (pc \in {"gated_parsed", "gated_typed"}
        /\ \A j \in 1..Len(RefJoinedItems) : RefJoinedItems[j] # <<>>) =>
        out_items = RefJoinedItems

\* an item holds the delimiter: a blank and a hyphen followed by a blank or
\* by the end of the item
RefHoldsDelimiter(item) ==
    \E j \in 1..(Len(item) - 1) :
        /\ item[j] \in SpaceChars
        /\ item[j + 1] = "-"
        /\ j + 1 = Len(item) \/ item[j + 2] \in SpaceChars

\* the part of C28 that the code keeps: the round trip of items none of
\* which holds the delimiter
C28_RoundTripWithoutDelimiter ==
    (pc \in {"gated_parsed", "gated_typed"}
        /\ \A j \in 1..Len(RefJoinedItems) :
              RefJoinedItems[j] # <<>> /\ ~RefHoldsDelimiter(RefJoinedItems[j])) =>
        out_items = RefJoinedItems

(***************************************************************************)
(* The custom dictionary under Add, Edit and Delete, checked under         *)
(* SpecEdit.                                                               *)
(***************************************************************************)
\* the normalized form of a label: the words of the label, lower-cased,
\* with one blank between them
RefNormalized(label) ==
    LET t == Lower(label)
        IsWordStart(j) == t[j] \notin SpaceChars /\ (j = 1 \/ t[j - 1] \in SpaceChars)
        GapBefore(j) == IsWordStart(j) /\ \E k \in 1..(j - 1) : t[k] \notin SpaceChars
        Piece(j) == IF t[j] \in SpaceChars THEN <<>>
                    ELSE IF GapBefore(j) THEN <<" ", t[j]>> ELSE <<t[j]>>
        Glue[j \in 0..Len(t)] == IF j = 0 THEN <<>> ELSE Glue[j - 1] \o Piece(j)
    IN  Glue[Len(t)]

\* C29: starting from an empty custom dictionary, after any sequence of Add,
\* Edit and Delete operations every entry's key is the normalized form of
\* its label, no key is a normalized default base term, and no two entries
\* carry the same label: a label picks exactly one entry.
C29_DictionaryWellFormed ==
    /\ \A j \in 1..Len(custom_dict) :
          /\ "label" \in DOMAIN custom_dict[j][2]
          /\ custom_dict[j][1] = RefNormalized(custom_dict[j][2].label)
          /\ \A b \in default_bases(state_prefix) :
                custom_dict[j][1] # RefNormalized(b)
    /\ \A j \in 1..Len(custom_dict) : \A k \in 1..Len(custom_dict) :
          j # k => /\ custom_dict[j][2].label # custom_dict[k][2].label
                   /\ custom_dict[j][1] # custom_dict[k][1]
    /\ \A label \in {added_labels[j] : j \in 1..Len(added_labels)} :
          Cardinality({j \in 1..Len(custom_dict) : custom_dict[j][2].label = label}) = 1

\* two entries, the second one renamed by Edit: "X" was added under the key
\* "x" and now carries the label "l" under the key "l"
C29_Witness ==
    /\ Len(custom_dict) = 2
    /\ custom_dict[1][1] = <<"x">>
    /\ custom_dict[1][2].label = <<"x">>
    /\ custom_dict[1][2].variants = << <<"c">> >>
    /\ custom_dict[2][1] = <<"c", " ", "x">>
    /\ custom_dict[2][2].label = <<"c", " ", " ", "x">>
    /\ added_labels = << <<"x">>, <<"c", " ", " ", "x">> >>

\* C30: the persisted custom vocabulary stays in step with the session:
\* after any sequence of Add, Edit, Delete, Clear and Reload operations,
\* what load(prefix) returns from the file is the custom dictionary of the
\* session, also when a save has failed.
C30_FileInStep ==
    boot_flag => DictItems(file_load(kw_file)) = DictItems(custom_dict)

====
